---------------------------- MODULE Spec2Model ----------------------------
(***************************************************************************)
(* Python Syntax Card Game: the game-session state machine (GameState),    *)
(* the card-legality engine it calls, the room registry and the socket     *)
(* handlers of app.py that drive them.                                     *)
(*                                                                         *)
(* The catalogue is the part of CARDS listed in CardNames; every card kept *)
(* has the category, points, can_follow list and effect of the source.     *)
(* The code of the played sequence is then always one line of Python over  *)
(* the tokens x, print, 1, +, ( and ), and ast.parse is modelled by a      *)
(* recogniser of Python's expression statements over those tokens.         *)
(*                                                                         *)
(* Eight specifications share the state: SpecPlay (two humans join and     *)
(* play, handlers run one at a time), SpecPlayFair (the same, where a call *)
(* that can succeed is eventually made), Spec (SpecPlay with disconnects), *)
(* SpecConc (the handlers of play_card and pass_turn run as threads that   *)
(* can be interrupted after the checks of the session call), SpecBot (a    *)
(* game against the bot, whose turn runs in a thread of its own),          *)
(* SpecLegal (play_card on sessions whose played sequence, wild flag and   *)
(* block are drawn from the values plays can produce), SpecDeck (the same  *)
(* with a deck of a few cards) and SpecRooms (joining, starting a game     *)
(* against the bot, leaving and disconnecting).                            *)
(***************************************************************************)
EXTENDS Integers, Sequences, FiniteSets, TLC

\* ------------------------------------------------------------------------
\* CARD DEFINITIONS
\* ------------------------------------------------------------------------

NoEffect == "none"

\* The catalogued cards of the model, in the order of the CARDS dictionary.
CardNames == <<"x", "print", "1", "+", "(", ")", "Draw 2", "Discard 2", "Skip", "Wild">>

CardSet == {CardNames[k] : k \in 1..Len(CardNames)}

SpecialFollow ==
    {"START", "LOOP", "KEYWORD", "FUNCTION", "VALUE", "VARIABLE", "OPERATOR",
     "SYNTAX_OPEN", "SYNTAX_CLOSE", "SYNTAX_COLON"}

CARDS ==
    [c \in CardSet |->
        CASE c = "x" ->
               [category |-> "VARIABLE", points |-> 1, effect |-> NoEffect,
                can_follow |-> {"START", "LOOP", "KEYWORD", "OPERATOR", "SYNTAX_OPEN",
                                "SYNTAX_COLON", "SYNTAX_COMMA", "VALUE", "FUNCTION"}]
          [] c = "print" ->
               [category |-> "FUNCTION", points |-> 2, effect |-> NoEffect,
                can_follow |-> {"START", "SYNTAX_COLON"}]
          [] c = "1" ->
               [category |-> "VALUE", points |-> 1, effect |-> NoEffect,
                can_follow |-> {"SYNTAX_OPEN", "SYNTAX_COMMA", "OPERATOR", "KEYWORD",
                                "VARIABLE"}]
          [] c = "+" ->
               [category |-> "OPERATOR", points |-> 1, effect |-> NoEffect,
                can_follow |-> {"VALUE", "VARIABLE", "SYNTAX_CLOSE", "FUNCTION"}]
          [] c = "(" ->
               [category |-> "SYNTAX_OPEN", points |-> 1, effect |-> NoEffect,
                can_follow |-> {"FUNCTION", "KEYWORD"}]
          [] c = ")" ->
               [category |-> "SYNTAX_CLOSE", points |-> 1, effect |-> NoEffect,
                can_follow |-> {"VALUE", "VARIABLE", "SYNTAX_CLOSE"}]
          [] c = "Draw 2" ->
               [category |-> "SPECIAL", points |-> 0, effect |-> "draw_2",
                can_follow |-> SpecialFollow]
          [] c = "Discard 2" ->
               [category |-> "SPECIAL", points |-> 0, effect |-> "discard_2",
                can_follow |-> SpecialFollow]
          [] c = "Skip" ->
               [category |-> "SPECIAL", points |-> 0, effect |-> "skip",
                can_follow |-> SpecialFollow]
          [] OTHER ->
               [category |-> "SPECIAL", points |-> 0, effect |-> "wild",
                can_follow |-> SpecialFollow]]

is_special_card(card_name) ==
    card_name \in CardSet /\ CARDS[card_name].category = "SPECIAL"

get_card_effect(card_name) ==
    IF card_name \in CardSet THEN CARDS[card_name].effect ELSE NoEffect

get_card_points(card_name) ==
    IF card_name \in CardSet THEN CARDS[card_name].points ELSE 0

\* ------------------------------------------------------------------------
\* Sequence helpers (Python list operations)
\* ------------------------------------------------------------------------

\* s[a:b] of Python, 0-based, on a sequence.
Slice(s, a, b) == SubSeq(s, a + 1, b)

\* An insertion that puts the card at the end whatever the position.
Insert_AtEnd(s, position, card) == Append(s, card)

\* list.insert(position, card)
Insert(s, position, card) ==
    Slice(s, 0, position) \o <<card>> \o Slice(s, position, Len(s))

Contains(s, e) == \E k \in 1..Len(s) : s[k] = e

\* list.remove(e): drops the first occurrence.
Remove(s, e) ==
    LET k == CHOOSE j \in 1..Len(s) : s[j] = e /\ \A h \in 1..(j - 1) : s[h] # e
    IN  SubSeq(s, 1, k - 1) \o SubSeq(s, k + 1, Len(s))

RECURSIVE RemoveAll(_, _)
\* for card in cards: s.remove(card)
RemoveAll(s, cards) ==
    IF cards = <<>> THEN s ELSE RemoveAll(Remove(s, Head(cards)), Tail(cards))

RECURSIVE Count(_, _)
Count(s, e) ==
    IF s = <<>> THEN 0 ELSE (IF Head(s) = e THEN 1 ELSE 0) + Count(Tail(s), e)

Min(a, b) == IF a <= b THEN a ELSE b
Max(a, b) == IF a >= b THEN a ELSE b

\* ------------------------------------------------------------------------
\* PYTHON CODE BUILDER AND VALIDATOR
\* ------------------------------------------------------------------------

\* build_python_code: special cards are filtered out; no catalogued card is a
\* colon, so the code is one line and its tokens are the code cards in order
\* (the spacing table never joins two tokens into one).
build_python_code(played_cards, pending) ==
    SelectSeq(played_cards \o pending, LAMBDA c : ~is_special_card(c))

IsName(t) == t \in {"x", "print", "True", "None"}
IsNumber(t) == t \in {"1", "0", "10"}

RECURSIVE ParseExpr(_), ParseUnary(_), ParsePrimary(_), ParseAtom(_)

\* atom: NAME | NUMBER | '(' ')' | '(' expression ')'
ParseAtom(t) ==
    \/ Len(t) = 1 /\ (IsName(t[1]) \/ IsNumber(t[1]))
    \/ /\ Len(t) >= 2
       /\ t[1] = "("
       /\ t[Len(t)] = ")"
       /\ (Len(t) = 2 \/ ParseExpr(SubSeq(t, 2, Len(t) - 1)))

\* primary: atom | primary '(' [expression] ')'
ParsePrimary(t) ==
    \/ ParseAtom(t)
    \/ /\ Len(t) >= 3
       /\ t[Len(t)] = ")"
       /\ \E k \in 2..(Len(t) - 1) :
             /\ t[k] = "("
             /\ ParsePrimary(SubSeq(t, 1, k - 1))
             /\ (k = Len(t) - 1 \/ ParseExpr(SubSeq(t, k + 1, Len(t) - 1)))

\* factor: '+' factor | primary
ParseUnary(t) ==
    \/ Len(t) >= 2 /\ t[1] = "+" /\ ParseUnary(Tail(t))
    \/ ParsePrimary(t)

\* sum: sum '+' factor | factor
ParseExpr(t) ==
    \/ ParseUnary(t)
    \/ \E k \in 2..(Len(t) - 1) :
          /\ t[k] = "+"
          /\ ParseExpr(SubSeq(t, 1, k - 1))
          /\ ParseUnary(SubSeq(t, k + 1, Len(t)))

\* validate_python_syntax: ast.parse of a one-line code accepts exactly an
\* expression statement; empty code is valid.
validate_python_syntax(code) == code = <<>> \/ ParseExpr(code)

\* ast.parse(completed + ":\n    pass"): a block header needs a compound
\* statement keyword (for, while, if, def, ...), and no catalogued card is one.
ParseBlockHeader(code) == FALSE

CloseParens(n) == [k \in 1..n |-> ")"]

\* can_form_valid_python: the direct parse, then the completion patterns. Of
\* the thirteen patterns, those that can match a one-line code over the
\* catalogued cards are 4 (closing parentheses), 6 (trailing operator) and
\* 12 (statement starter "print").
can_form_valid_python(played_cards, pending_card) ==
    IF pending_card \notin CardSet THEN FALSE
    ELSE IF CARDS[pending_card].category = "SPECIAL" THEN TRUE
    ELSE LET code == build_python_code(played_cards, <<pending_card>>)
             open_parens == Count(code, "(")
             close_parens == Count(code, ")")
             completed == code \o CloseParens(open_parens - close_parens)
         IN  \/ code = <<>>
             \/ validate_python_syntax(code)
             \/ /\ open_parens > close_parens
                /\ (ParseExpr(completed) \/ ParseBlockHeader(completed))
             \/ /\ code[Len(code)] = "+"
                /\ \/ ParseExpr(code \o <<"1">>)
                   \/ ParseExpr(code \o <<"True">>)
                   \/ ParseExpr(code \o <<"x">>)
             \/ /\ pending_card = "print"
                /\ ParseExpr(code \o <<"(", "x", ")">>)

\* ------------------------------------------------------------------------
\* CARD VALIDATION
\* ------------------------------------------------------------------------

get_last_card_category(played_cards) ==
    IF played_cards = <<>> THEN "START"
    ELSE LET last_card == played_cards[Len(played_cards)]
         IN  IF last_card = ":" THEN "START"
             ELSE IF last_card \in CardSet THEN CARDS[last_card].category
             ELSE "START"

\* can_play_card: the entry point the tests exercise. category_valid is
\* computed by the source and does not change the verdict.
can_play_card(card_name, played_cards, last_was_wild, open_paren_count) ==
    IF card_name \notin CardSet THEN FALSE
    ELSE IF CARDS[card_name].category = "SPECIAL" THEN TRUE
    ELSE IF card_name = ")" /\ open_paren_count <= 0 THEN FALSE
    ELSE LET last_category == get_last_card_category(played_cards)
             can_follow == CARDS[card_name].can_follow
             category_valid ==
                 IF last_category = "START" /\ played_cards # <<>>
                    /\ played_cards[Len(played_cards)] = ":"
                 THEN last_category \in can_follow \/ "SYNTAX_COLON" \in can_follow
                 ELSE last_category \in can_follow \/ last_was_wild
             is_valid == can_form_valid_python(played_cards, card_name)
         IN  IF ~is_valid THEN FALSE
             ELSE IF category_valid THEN TRUE
             ELSE is_valid

\* Check 1 of can_insert_card_at_position: the card must be valid after what
\* comes before it.
InsertCheckBefore(card_name, played_cards, position, last_was_wild) ==
    LET can_follow == CARDS[card_name].can_follow
    IN  IF position = 0
        THEN ~(~last_was_wild /\ "START" \notin can_follow
               /\ "SYNTAX_COLON" \notin can_follow)
        ELSE LET card_before == played_cards[position]
             IN  IF card_before \in CardSet
                    /\ ~last_was_wild
                    /\ CARDS[card_before].category \notin can_follow
                 THEN IF card_before = ":"
                      THEN ~("START" \notin can_follow /\ "SYNTAX_COLON" \notin can_follow)
                      ELSE FALSE
                 ELSE TRUE

\* Check 2: the card after the insertion point must be valid after the card.
InsertCheckAfter(card_name, played_cards, position) ==
    IF position < Len(played_cards)
    THEN LET card_after == played_cards[position + 1]
         IN  IF card_after \in CardSet /\ CARDS[card_after].category # "SPECIAL"
             THEN CARDS[card_name].category \in CARDS[card_after].can_follow
             ELSE TRUE
    ELSE TRUE

\* Check 3: the code before the insertion point with the card, else the whole
\* new sequence, else the same pattern check once more.
InsertCheckPython(card_name, played_cards, position) ==
    LET cards_before == Slice(played_cards, 0, position)
        new_sequence == Insert(played_cards, position, card_name)
    IN  \/ can_form_valid_python(cards_before, card_name)
        \/ validate_python_syntax(build_python_code(new_sequence, <<>>))
        \/ can_form_valid_python(Slice(played_cards, 0, position), card_name)

\* A can_insert_card_at_position that runs the three checks on special cards
\* as well.
can_insert_card_at_position_ChecksSpecial(card_name, played_cards, position, last_was_wild) ==
    IF card_name \notin CardSet THEN FALSE
    ELSE /\ InsertCheckBefore(card_name, played_cards, position, last_was_wild)
         /\ InsertCheckAfter(card_name, played_cards, position)
         /\ InsertCheckPython(card_name, played_cards, position)

\* can_insert_card_at_position: the legality check of play_card, pass_turn
\* and the playable list. It takes no open_paren_count.
can_insert_card_at_position(card_name, played_cards, position, last_was_wild) ==
    IF card_name \notin CardSet THEN FALSE
    ELSE IF CARDS[card_name].category = "SPECIAL" THEN TRUE
    ELSE /\ InsertCheckBefore(card_name, played_cards, position, last_was_wild)
         /\ InsertCheckAfter(card_name, played_cards, position)
         /\ InsertCheckPython(card_name, played_cards, position)

get_playable_cards_at_position(hand, played_cards, position, last_was_wild) ==
    SelectSeq(hand, LAMBDA card :
        can_insert_card_at_position(card, played_cards, position, last_was_wild))

\* A get_playable_cards that asks can_play_card, the other legality function.
get_playable_cards_ByCanPlayCard(hand, played_cards, last_was_wild, open_paren_count) ==
    SelectSeq(hand, LAMBDA card :
        can_play_card(card, played_cards, last_was_wild, open_paren_count))

\* get_playable_cards: open_paren_count is accepted and not used.
get_playable_cards(hand, played_cards, last_was_wild, open_paren_count) ==
    get_playable_cards_at_position(hand, played_cards, Len(played_cards), last_was_wild)

\* ------------------------------------------------------------------------
\* DECK MANAGEMENT
\* ------------------------------------------------------------------------

\* Bounds of the model. The program deals STARTING_HAND_SIZE = 7 cards and
\* grants a power every POWER_INTERVAL = 5 turns from a deck of 89 cards; the
\* model deals and counts with the smaller numbers below from a deck holding
\* DeckCount copies of the catalogued cards.
STARTING_HAND_SIZE == 2
POWER_INTERVAL == 2

\* Copies of each catalogued card in a fresh deck.
DeckCount == [c \in CardSet |-> 1]

MAX_CONSECUTIVE_PASSES == 3

\* create_deck: every catalogued card, DeckCount[card] times, in the order
\* of the CARDS dictionary.
create_deck ==
    LET RECURSIVE Copies(_, _), Build(_)
        Copies(c, n) == IF n = 0 THEN <<>> ELSE <<c>> \o Copies(c, n - 1)
        Build(k) == IF k = 0 THEN <<>>
                    ELSE Build(k - 1) \o Copies(CardNames[k], DeckCount[CardNames[k]])
    IN  Build(Len(CardNames))

\* The outcomes of random.shuffle the model draws from: orders of the places
\* 1..Len(create_deck). A shorter or longer list is put in the order these
\* give to its own places.
Shuffles == {<<10, 9, 6, 4, 5, 3, 8, 7, 2, 1>>}

\* The place of index k in the order perm (places past the end come last).
Rank(perm, k) ==
    IF \E j \in 1..Len(perm) : perm[j] = k
    THEN CHOOSE j \in 1..Len(perm) : perm[j] = k
    ELSE Len(perm) + k

\* shuffle_deck(deck) with the outcome perm of random.shuffle.
shuffle_deck(deck, perm) ==
    [k \in 1..Len(deck) |->
        deck[CHOOSE i \in 1..Len(deck) :
               Cardinality({j \in 1..Len(deck) : Rank(perm, j) < Rank(perm, i)}) = k - 1]]

\* draw_cards(deck, num_cards): the list of cards popped of the end of the deck
draw_cards(deck, num_cards) ==
    [k \in 1..Min(Max(num_cards, 0), Len(deck)) |-> deck[Len(deck) - k + 1]]

\* A draw that pops one card more than it returns.
DeckAfter_PopsOneMore(deck, num_cards) ==
    SubSeq(deck, 1, Len(deck) - Min(Max(num_cards, 0) + 1, Len(deck)))

\* the deck draw_cards(deck, num_cards) leaves
DeckAfter(deck, num_cards) ==
    SubSeq(deck, 1, Len(deck) - Min(Max(num_cards, 0), Len(deck)))

\* random.sample(hand, n): n cards at distinct places of the hand.
Sample(hand, n) ==
    IF n = 0 THEN {<<>>}
    ELSE IF n = 1 THEN {<<hand[i]>> : i \in 1..Len(hand)}
    ELSE {<<hand[q[1]], hand[q[2]]>> :
            q \in {r \in (1..Len(hand)) \X (1..Len(hand)) : r[1] # r[2]}}

\* ------------------------------------------------------------------------
\* GAME STATE CLASS
\* ------------------------------------------------------------------------

None == "None"
NoPosition == 0 - 1

POWERS == {"peek", "swap", "mulligan", "double_points", "block"}

NoAction ==
    [type |-> None, player |-> None, card |-> None, effect |-> None,
     position |-> NoPosition, drew_card |-> None, power |-> None]

\* GameState.__init__
NewGameState(room_code) ==
    [room_code |-> room_code, players |-> <<>>, hands |-> <<>>, played_cards |-> <<>>,
     scores |-> <<>>, current_turn |-> 0, deck |-> <<>>, game_started |-> FALSE,
     game_over |-> FALSE, winner |-> None, consecutive_passes |-> <<>>,
     last_action |-> NoAction, turn_number |-> 0, last_was_wild |-> FALSE,
     open_paren_count |-> 0, power_available |-> <<>>, active_effects |-> <<>>,
     turns_played |-> <<>>, power_used_this_turn |-> <<>>, blocked_players |-> <<>>]

PlayerSet(g) == {g.players[k] : k \in 1..Len(g.players)}

\* dict.pop(key, None)
Pop(f, key) == [k \in (DOMAIN f) \ {key} |-> f[k]]

\* dict.get(key, default)
Get(f, key, default) == IF key \in DOMAIN f THEN f[key] ELSE default

\* d[key] = value
Put(f, key, value) == [k \in (DOMAIN f) \cup {key} |-> IF k = key THEN value ELSE f[k]]

\* An add_player test that leaves out the room-full test.
add_player_ok_NoFullTest(g, player_id) == player_id \notin PlayerSet(g)

add_player_ok(g, player_id) ==
    ~(Len(g.players) >= 2) /\ player_id \notin PlayerSet(g)

add_player(g, player_id) ==
    IF ~add_player_ok(g, player_id) THEN g
    ELSE [g EXCEPT
            !.players = Append(@, player_id),
            !.hands = Put(@, player_id, <<>>),
            !.scores = Put(@, player_id, 0),
            !.consecutive_passes = Put(@, player_id, 0),
            !.power_available = Put(@, player_id, FALSE),
            !.active_effects = Put(@, player_id, None),
            !.turns_played = Put(@, player_id, 0),
            !.power_used_this_turn = Put(@, player_id, FALSE),
            !.blocked_players = Put(@, player_id, FALSE)]

remove_player(g, player_id) ==
    IF player_id \notin PlayerSet(g) THEN g
    ELSE [g EXCEPT
            !.players = Remove(@, player_id),
            !.hands = Pop(@, player_id),
            !.scores = Pop(@, player_id),
            !.consecutive_passes = Pop(@, player_id),
            !.power_available = Pop(@, player_id),
            !.active_effects = Pop(@, player_id),
            !.turns_played = Pop(@, player_id),
            !.power_used_this_turn = Pop(@, player_id),
            !.blocked_players = Pop(@, player_id)]

is_ready(g) == Len(g.players) = 2

\* A start_game test that leaves out game_started.
start_game_ok_IgnoresStarted(g) == is_ready(g)

start_game_ok(g) == is_ready(g) /\ ~g.game_started

\* start_game: perm is the outcome of random.shuffle, first the outcome of
\* random.randint(0, 1).
start_game(g, perm, first) ==
    IF ~start_game_ok(g) THEN g
    ELSE LET deck0 == shuffle_deck(create_deck, perm)
             hand1 == draw_cards(deck0, STARTING_HAND_SIZE)
             deck1 == DeckAfter(deck0, STARTING_HAND_SIZE)
             hand2 == draw_cards(deck1, STARTING_HAND_SIZE)
             deck2 == DeckAfter(deck1, STARTING_HAND_SIZE)
         IN  [g EXCEPT
                !.deck = deck2,
                !.hands = Put(Put(@, g.players[1], hand1), g.players[2], hand2),
                !.current_turn = first,
                !.game_started = TRUE,
                !.turn_number = 1]

\* get_current_player raises IndexError when the turn pointer is past the
\* end of a non-empty player list.
CurrentRaises(g) == g.players # <<>> /\ g.current_turn >= Len(g.players)

get_current_player(g) ==
    IF g.players = <<>> THEN None ELSE g.players[g.current_turn + 1]

get_opponent(g, player_id) ==
    IF player_id \notin PlayerSet(g) THEN None
    ELSE IF \E k \in 1..Len(g.players) : g.players[k] # player_id
         THEN g.players[CHOOSE k \in 1..Len(g.players) :
                  /\ g.players[k] # player_id
                  /\ \A h \in 1..(k - 1) : g.players[h] = player_id]
         ELSE None

\* A turn test that accepts every player of the session.
is_player_turn_AnyPlayer(g, player_id) == player_id \in PlayerSet(g)

is_player_turn(g, player_id) == get_current_player(g) = player_id

\* The outcome of a call: the session after it, whether it returned success,
\* its failure message, and whether it raised instead of returning.
Outcome(g, success, message, raised) ==
    [g |-> g, success |-> success, message |-> message, raised |-> raised]

Fail(g, message) == Outcome(g, FALSE, message, FALSE)

Raise(g) == Outcome(g, FALSE, "IndexError", TRUE)

\* The call on session g had an effect: it returned success, or it raised
\* after it had changed the session. A call that returns a failure, or raises
\* before it changed anything, leaves the server's state as it was.
Passed(g, r) == r.success \/ r.g # g

\* next_turn, up to the read of the new current player.
next_turn_advance(g) ==
    LET g1 == IF get_current_player(g) # None
              THEN [g EXCEPT
                      !.turns_played = Put(@, get_current_player(g),
                                           Get(@, get_current_player(g), 0) + 1),
                      !.power_used_this_turn = Put(@, get_current_player(g), FALSE)]
              ELSE g
    IN  [g1 EXCEPT !.current_turn = (@ + 1) % 2, !.turn_number = @ + 1]

\* A power grant that leaves out the test of the turns played.
next_turn_grant_AnyTurn(g) ==
    LET new_current == get_current_player(g)
    IN  IF new_current # None /\ ~Get(g.power_available, new_current, FALSE)
        THEN [g EXCEPT !.power_available = Put(@, new_current, TRUE)]
        ELSE g

\* next_turn, after it: the power grant to the new current player.
next_turn_grant(g) ==
    LET new_current == get_current_player(g)
        turns == Get(g.turns_played, new_current, 0)
    IN  IF /\ new_current # None
           /\ turns > 0
           /\ turns % POWER_INTERVAL = 0
           /\ ~Get(g.power_available, new_current, FALSE)
        THEN [g EXCEPT !.power_available = Put(@, new_current, TRUE)]
        ELSE g

\* next_turn: [g, raised]. get_current_player raises when the pointer is past
\* the end of the player list: at the first read nothing was changed yet, at
\* the second the counters and the pointer already were.
next_turn(g) ==
    IF CurrentRaises(g) THEN [g |-> g, raised |-> TRUE]
    ELSE LET g1 == next_turn_advance(g)
         IN  IF CurrentRaises(g1) THEN [g |-> g1, raised |-> TRUE]
             ELSE [g |-> next_turn_grant(g1), raised |-> FALSE]

\* A _recalculate_paren_count that counts the opening parentheses only.
_recalculate_paren_count_OpenOnly(g) ==
    [g EXCEPT !.open_paren_count = Count(g.played_cards, "(")]

_recalculate_paren_count(g) ==
    [g EXCEPT !.open_paren_count = Count(g.played_cards, "(") - Count(g.played_cards, ")")]

\* An _apply_special_effect whose wild effect leaves last_was_wild as it is.
_apply_special_effect_WildUnset(g, player_id, effect, discarded) ==
    LET opponent_id == get_opponent(g, player_id)
    IN  CASE effect = "draw_2" ->
               IF opponent_id # None /\ g.deck # <<>>
               THEN [g EXCEPT !.last_was_wild = FALSE,
                              !.deck = DeckAfter(@, 2),
                              !.hands[opponent_id] = @ \o draw_cards(g.deck, 2)]
               ELSE [g EXCEPT !.last_was_wild = FALSE]
          [] effect = "discard_2" ->
               IF opponent_id # None /\ Get(g.hands, opponent_id, <<>>) # <<>>
               THEN [g EXCEPT !.last_was_wild = FALSE,
                              !.hands[opponent_id] = RemoveAll(@, discarded)]
               ELSE [g EXCEPT !.last_was_wild = FALSE]
          [] effect = "skip" -> [g EXCEPT !.last_was_wild = FALSE]
          [] OTHER -> g

\* An _apply_special_effect whose draw_2 draws one card.
_apply_special_effect_DrawsOne(g, player_id, effect, discarded) ==
    LET opponent_id == get_opponent(g, player_id)
    IN  CASE effect = "draw_2" ->
               IF opponent_id # None /\ g.deck # <<>>
               THEN [g EXCEPT !.last_was_wild = FALSE,
                              !.deck = DeckAfter(@, 1),
                              !.hands[opponent_id] = @ \o draw_cards(g.deck, 1)]
               ELSE [g EXCEPT !.last_was_wild = FALSE]
          [] effect = "discard_2" ->
               IF opponent_id # None /\ Get(g.hands, opponent_id, <<>>) # <<>>
               THEN [g EXCEPT !.last_was_wild = FALSE,
                              !.hands[opponent_id] = RemoveAll(@, discarded)]
               ELSE [g EXCEPT !.last_was_wild = FALSE]
          [] effect = "skip" -> [g EXCEPT !.last_was_wild = FALSE]
          [] effect = "wild" -> [g EXCEPT !.last_was_wild = TRUE]
          [] OTHER -> g

\* _apply_special_effect: discarded is what random.sample(opponent_hand,
\* num_discard) returns.
_apply_special_effect(g, player_id, effect, discarded) ==
    LET opponent_id == get_opponent(g, player_id)
    IN  CASE effect = "draw_2" ->
               IF opponent_id # None /\ g.deck # <<>>
               THEN [g EXCEPT !.last_was_wild = FALSE,
                              !.deck = DeckAfter(@, 2),
                              !.hands[opponent_id] = @ \o draw_cards(g.deck, 2)]
               ELSE [g EXCEPT !.last_was_wild = FALSE]
          [] effect = "discard_2" ->
               IF opponent_id # None /\ Get(g.hands, opponent_id, <<>>) # <<>>
               THEN [g EXCEPT !.last_was_wild = FALSE,
                              !.hands[opponent_id] = RemoveAll(@, discarded)]
               ELSE [g EXCEPT !.last_was_wild = FALSE]
          [] effect = "skip" -> [g EXCEPT !.last_was_wild = FALSE]
          [] effect = "wild" -> [g EXCEPT !.last_was_wild = TRUE]
          [] OTHER -> g

\* The outcomes of random.sample that _apply_special_effect can read when
\* player_id plays card_name in session g.
DiscardedFor(g, player_id, card_name) ==
    LET opponent_id == get_opponent(g, player_id)
        opponent_hand == Get(g.hands, opponent_id, <<>>)
    IN  IF /\ get_card_effect(card_name) = "discard_2"
           /\ opponent_id # None
           /\ ~Get(g.blocked_players, player_id, FALSE)
        THEN Sample(opponent_hand, Min(2, Len(opponent_hand))) ELSE {<<>>}

\* _check_win_conditions raises IndexError when the deck is empty and fewer
\* than two players are left (scores[1]).
WinCheckRaises(g) == Len(g.deck) = 0 /\ Len(g.players) < 2

\* A deck-exhaustion rule whose perfect tie goes to the player who joined last.
_check_win_conditions_TieToLast(g) ==
    IF Len(g.deck) = 0
    THEN LET p0 == g.players[1]
             p1 == g.players[2]
             s0 == Get(g.scores, p0, 0)
             s1 == Get(g.scores, p1, 0)
             h0 == Len(Get(g.hands, p0, <<>>))
             h1 == Len(Get(g.hands, p1, <<>>))
         IN  IF s0 # s1 THEN (IF s0 > s1 THEN p0 ELSE p1)
             ELSE IF h0 # h1 THEN (IF h0 < h1 THEN p0 ELSE p1)
             ELSE p1
    ELSE None

_check_win_conditions(g) ==
    IF Len(g.deck) = 0
    THEN LET p0 == g.players[1]
             p1 == g.players[2]
             s0 == Get(g.scores, p0, 0)
             s1 == Get(g.scores, p1, 0)
             h0 == Len(Get(g.hands, p0, <<>>))
             h1 == Len(Get(g.hands, p1, <<>>))
         IN  IF s0 # s1 THEN (IF s0 > s1 THEN p0 ELSE p1)
             ELSE IF h0 # h1 THEN (IF h0 < h1 THEN p0 ELSE p1)
             ELSE p0
    ELSE None

\* position = max(0, min(position, len(played_cards))), None meaning the end
NormalizePosition(g, position) ==
    IF position = NoPosition THEN Len(g.played_cards)
    ELSE Max(0, Min(position, Len(g.played_cards)))

\* A play_card whose blocked branch leaves the block in place.
play_card_apply_KeepsBlock(g, player_id, card_name, position, discarded) ==
    LET effect == get_card_effect(card_name)
        g1 == [g EXCEPT !.hands[player_id] = Remove(@, card_name),
                        !.consecutive_passes[player_id] = 0]
        g2 == IF effect # NoEffect
              THEN IF Get(g1.blocked_players, player_id, FALSE)
                   THEN [g1 EXCEPT !.last_was_wild = IF effect # "wild" THEN FALSE ELSE @]
                   ELSE _apply_special_effect(g1, player_id, effect, discarded)
              ELSE LET points == get_card_points(card_name)
                       doubled == Get(g1.active_effects, player_id, None) = "double_points"
                   IN  _recalculate_paren_count(
                         [g1 EXCEPT
                            !.played_cards = Insert(@, position, card_name),
                            !.active_effects[player_id] = IF doubled THEN None ELSE @,
                            !.scores[player_id] = @ + (IF doubled THEN points * 2 ELSE points),
                            !.last_was_wild = FALSE])
    IN  [g2 EXCEPT !.last_action =
            [NoAction EXCEPT !.type = "play", !.player = player_id, !.card = card_name,
                             !.effect = IF effect = NoEffect THEN None ELSE effect,
                             !.position = position]]

\* A play_card that scores the double and leaves the effect in place.
play_card_apply_KeepsDouble(g, player_id, card_name, position, discarded) ==
    LET effect == get_card_effect(card_name)
        g1 == [g EXCEPT !.hands[player_id] = Remove(@, card_name),
                        !.consecutive_passes[player_id] = 0]
        g2 == IF effect # NoEffect
              THEN IF Get(g1.blocked_players, player_id, FALSE)
                   THEN [g1 EXCEPT !.blocked_players[player_id] = FALSE,
                                   !.last_was_wild = IF effect # "wild" THEN FALSE ELSE @]
                   ELSE _apply_special_effect(g1, player_id, effect, discarded)
              ELSE LET points == get_card_points(card_name)
                       doubled == Get(g1.active_effects, player_id, None) = "double_points"
                   IN  _recalculate_paren_count(
                         [g1 EXCEPT
                            !.played_cards = Insert(@, position, card_name),
                            !.scores[player_id] = @ + (IF doubled THEN points * 2 ELSE points),
                            !.last_was_wild = FALSE])
    IN  [g2 EXCEPT !.last_action =
            [NoAction EXCEPT !.type = "play", !.player = player_id, !.card = card_name,
                             !.effect = IF effect = NoEffect THEN None ELSE effect,
                             !.position = position]]

\* play_card from "Play the card" to "Record the action".
play_card_apply(g, player_id, card_name, position, discarded) ==
    LET effect == get_card_effect(card_name)
        g1 == [g EXCEPT !.hands[player_id] = Remove(@, card_name),
                        !.consecutive_passes[player_id] = 0]
        g2 == IF effect # NoEffect
              THEN IF Get(g1.blocked_players, player_id, FALSE)
                   THEN [g1 EXCEPT !.blocked_players[player_id] = FALSE,
                                   !.last_was_wild = IF effect # "wild" THEN FALSE ELSE @]
                   ELSE _apply_special_effect(g1, player_id, effect, discarded)
              ELSE LET points == get_card_points(card_name)
                       doubled == Get(g1.active_effects, player_id, None) = "double_points"
                   IN  _recalculate_paren_count(
                         [g1 EXCEPT
                            !.played_cards = Insert(@, position, card_name),
                            !.active_effects[player_id] = IF doubled THEN None ELSE @,
                            !.scores[player_id] = @ + (IF doubled THEN points * 2 ELSE points),
                            !.last_was_wild = FALSE])
    IN  [g2 EXCEPT !.last_action =
            [NoAction EXCEPT !.type = "play", !.player = player_id, !.card = card_name,
                             !.effect = IF effect = NoEffect THEN None ELSE effect,
                             !.position = position]]

\* play_card from "Check win conditions" to the return.
play_card_finish(g, card_name) ==
    IF WinCheckRaises(g) THEN Raise(g)
    ELSE LET winner == _check_win_conditions(g)
             g1 == IF winner # None
                   THEN [g EXCEPT !.game_over = TRUE, !.winner = winner] ELSE g
         IN  IF get_card_effect(card_name) # "skip"
             THEN LET nt == next_turn(g1)
                  IN  IF nt.raised THEN Raise(nt.g) ELSE Outcome(nt.g, TRUE, "", FALSE)
             ELSE Outcome(g1, TRUE, "", FALSE)

\* Checks of play_card that leave out the game-over test.
play_card_check_NoOverTest(g, player_id, card_name, position) ==
    IF ~g.game_started THEN "Game has not started yet"
    ELSE IF CurrentRaises(g) THEN "IndexError"
    ELSE IF ~is_player_turn(g, player_id) THEN "It's not your turn"
    ELSE IF ~Contains(Get(g.hands, player_id, <<>>), card_name)
         THEN "You don't have that card"
    ELSE IF ~can_insert_card_at_position(card_name, g.played_cards,
                                         NormalizePosition(g, position), g.last_was_wild)
         THEN "Illegal move"
    ELSE ""

\* The checks of play_card: the failure message, or "" when the card is played.
play_card_check(g, player_id, card_name, position) ==
    IF ~g.game_started THEN "Game has not started yet"
    ELSE IF g.game_over THEN "Game is already over"
    ELSE IF CurrentRaises(g) THEN "IndexError"
    ELSE IF ~is_player_turn(g, player_id) THEN "It's not your turn"
    ELSE IF ~Contains(Get(g.hands, player_id, <<>>), card_name)
         THEN "You don't have that card"
    ELSE IF ~can_insert_card_at_position(card_name, g.played_cards,
                                         NormalizePosition(g, position), g.last_was_wild)
         THEN "Illegal move"
    ELSE ""

\* A play_card that takes the card out of the hand before the legality check.
play_card_RemovesFirst(g, player_id, card_name, position, discarded) ==
    LET check == play_card_check(g, player_id, card_name, position)
    IN  IF check = "IndexError" THEN Raise(g)
        ELSE IF check = "Illegal move"
             THEN Fail([g EXCEPT !.hands[player_id] = Remove(@, card_name)], check)
        ELSE IF check # "" THEN Fail(g, check)
        ELSE play_card_finish(
               play_card_apply(g, player_id, card_name, NormalizePosition(g, position),
                               discarded),
               card_name)

play_card(g, player_id, card_name, position, discarded) ==
    LET check == play_card_check(g, player_id, card_name, position)
    IN  IF check = "IndexError" THEN Raise(g)
        ELSE IF check # "" THEN Fail(g, check)
        ELSE play_card_finish(
               play_card_apply(g, player_id, card_name, NormalizePosition(g, position),
                               discarded),
               card_name)

\* Checks of pass_turn that leave out the playable-cards test.
pass_turn_check_NoPlayableTest(g, player_id) ==
    IF ~g.game_started THEN "Game has not started yet"
    ELSE IF g.game_over THEN "Game is already over"
    ELSE IF CurrentRaises(g) THEN "IndexError"
    ELSE IF ~is_player_turn(g, player_id) THEN "It's not your turn"
    ELSE ""

\* The checks of pass_turn: the failure message, or "" when the pass is made.
pass_turn_check(g, player_id) ==
    IF ~g.game_started THEN "Game has not started yet"
    ELSE IF g.game_over THEN "Game is already over"
    ELSE IF CurrentRaises(g) THEN "IndexError"
    ELSE IF ~is_player_turn(g, player_id) THEN "It's not your turn"
    ELSE IF get_playable_cards(Get(g.hands, player_id, <<>>), g.played_cards,
                               g.last_was_wild, g.open_paren_count) # <<>>
         THEN "You have valid cards to play"
    ELSE ""

\* A pass_turn that does not count the pass.
pass_turn_apply_NoCount(g, player_id) ==
    LET drawn == draw_cards(g.deck, 1)
        g1 == [g EXCEPT !.deck = DeckAfter(@, 1),
                        !.hands[player_id] = @ \o drawn,
                        !.last_action =
                            [NoAction EXCEPT !.type = "pass", !.player = player_id,
                                             !.drew_card = IF drawn = <<>> THEN None
                                                           ELSE drawn[1]]]
        opponent_id == get_opponent(g1, player_id)
    IN  IF g1.consecutive_passes[player_id] >= MAX_CONSECUTIVE_PASSES /\ opponent_id # None
        THEN [g1 EXCEPT !.game_over = TRUE, !.winner = opponent_id]
        ELSE g1

\* pass_turn from "Draw a card" to the pass-streak test.
pass_turn_apply(g, player_id) ==
    LET drawn == draw_cards(g.deck, 1)
        g1 == [g EXCEPT !.deck = DeckAfter(@, 1),
                        !.hands[player_id] = @ \o drawn,
                        !.consecutive_passes[player_id] = @ + 1,
                        !.last_action =
                            [NoAction EXCEPT !.type = "pass", !.player = player_id,
                                             !.drew_card = IF drawn = <<>> THEN None
                                                           ELSE drawn[1]]]
        opponent_id == get_opponent(g1, player_id)
    IN  IF g1.consecutive_passes[player_id] >= MAX_CONSECUTIVE_PASSES /\ opponent_id # None
        THEN [g1 EXCEPT !.game_over = TRUE, !.winner = opponent_id]
        ELSE g1

\* A pass_turn whose deck-exhaustion result replaces the pass-streak result.
pass_turn_finish_DeckRuleLast(g) ==
    IF WinCheckRaises(g) THEN Raise(g)
    ELSE LET winner == _check_win_conditions(g)
             g1 == IF winner # None
                   THEN [g EXCEPT !.game_over = TRUE, !.winner = winner] ELSE g
             nt == next_turn(g1)
         IN  IF nt.raised THEN Raise(nt.g) ELSE Outcome(nt.g, TRUE, "", FALSE)

\* pass_turn from "Check other win conditions" to the return.
pass_turn_finish(g) ==
    IF WinCheckRaises(g) THEN Raise(g)
    ELSE LET winner == _check_win_conditions(g)
             g1 == IF winner # None /\ ~g.game_over
                   THEN [g EXCEPT !.game_over = TRUE, !.winner = winner] ELSE g
             nt == next_turn(g1)
         IN  IF nt.raised THEN Raise(nt.g) ELSE Outcome(nt.g, TRUE, "", FALSE)

pass_turn(g, player_id) ==
    LET check == pass_turn_check(g, player_id)
    IN  IF check = "IndexError" THEN Raise(g)
        ELSE IF check # "" THEN Fail(g, check)
        ELSE pass_turn_finish(pass_turn_apply(g, player_id))

\* [c for c in player_hand if c not in playable]
Unplayable(g, player_id) ==
    LET player_hand == Get(g.hands, player_id, <<>>)
        playable == get_playable_cards(player_hand, g.played_cards, g.last_was_wild,
                                       g.open_paren_count)
    IN  SelectSeq(player_hand, LAMBDA c : ~Contains(playable, c))

\* The outcomes of random.sample that use_power can read in session g.
ChosenFor(g, player_id, power_name) ==
    LET player_hand == Get(g.hands, player_id, <<>>)
    IN  IF power_name = "swap" /\ Len(player_hand) >= 2 THEN Sample(player_hand, 2)
        ELSE {<<>>}

\* Checks of use_power that leave out the power_available test.
use_power_check_NoAvailableTest(g, player_id, power_name) ==
    IF ~g.game_started THEN "Game has not started yet"
    ELSE IF g.game_over THEN "Game is already over"
    ELSE IF CurrentRaises(g) THEN "IndexError"
    ELSE IF ~is_player_turn(g, player_id) THEN "It's not your turn"
    ELSE IF Get(g.power_used_this_turn, player_id, FALSE)
         THEN "Already used a power this turn"
    ELSE IF power_name \notin POWERS THEN "Invalid power"
    ELSE IF /\ power_name = "swap"
            /\ ~(Len(Get(g.hands, player_id, <<>>)) >= 2 /\ Len(g.deck) >= 2)
         THEN "Not enough cards to swap"
    ELSE IF power_name = "mulligan" /\ Unplayable(g, player_id) = <<>>
         THEN "All your cards are playable!"
    ELSE IF power_name = "mulligan" /\ Len(g.deck) = 0 THEN "Deck is empty"
    ELSE IF power_name = "block" /\ get_opponent(g, player_id) = None
         THEN "No opponent to block"
    ELSE ""

\* The checks of use_power: the failure message, or "" when the power is used.
use_power_check(g, player_id, power_name) ==
    IF ~g.game_started THEN "Game has not started yet"
    ELSE IF g.game_over THEN "Game is already over"
    ELSE IF CurrentRaises(g) THEN "IndexError"
    ELSE IF ~is_player_turn(g, player_id) THEN "It's not your turn"
    ELSE IF ~Get(g.power_available, player_id, FALSE) THEN "No power available"
    ELSE IF Get(g.power_used_this_turn, player_id, FALSE)
         THEN "Already used a power this turn"
    ELSE IF power_name \notin POWERS THEN "Invalid power"
    ELSE IF /\ power_name = "swap"
            /\ ~(Len(Get(g.hands, player_id, <<>>)) >= 2 /\ Len(g.deck) >= 2)
         THEN "Not enough cards to swap"
    ELSE IF power_name = "mulligan" /\ Unplayable(g, player_id) = <<>>
         THEN "All your cards are playable!"
    ELSE IF power_name = "mulligan" /\ Len(g.deck) = 0 THEN "Deck is empty"
    ELSE IF power_name = "block" /\ get_opponent(g, player_id) = None
         THEN "No opponent to block"
    ELSE ""

\* A use_power that does not mark the power as used.
use_power_apply_KeepsPower(g, player_id, power_name, chosen, perm) ==
    LET opponent_id == get_opponent(g, player_id)
        g1 == CASE power_name = "swap" ->
                     LET deck1 == shuffle_deck(g.deck \o chosen, perm)
                     IN  [g EXCEPT !.hands[player_id] =
                                       RemoveAll(@, chosen) \o draw_cards(deck1, 2),
                                   !.deck = DeckAfter(deck1, 2)]
                [] power_name = "mulligan" ->
                     LET unplayable == Unplayable(g, player_id)
                     IN  [g EXCEPT !.hands[player_id] =
                                       RemoveAll(@, unplayable)
                                           \o draw_cards(g.deck, Len(unplayable)),
                                   !.deck = DeckAfter(@, Len(unplayable))]
                [] power_name = "double_points" ->
                     [g EXCEPT !.active_effects[player_id] = "double_points"]
                [] power_name = "block" ->
                     [g EXCEPT !.blocked_players[opponent_id] = TRUE]
                [] OTHER -> g
    IN  [g1 EXCEPT !.last_action = [NoAction EXCEPT !.type = "power", !.player = player_id,
                                                    !.power = power_name]]

\* use_power from "Apply the power effect" to the return: chosen is the
\* outcome of random.sample, perm the outcome of random.shuffle.
use_power_apply(g, player_id, power_name, chosen, perm) ==
    LET opponent_id == get_opponent(g, player_id)
        g1 == CASE power_name = "swap" ->
                     LET deck1 == shuffle_deck(g.deck \o chosen, perm)
                     IN  [g EXCEPT !.hands[player_id] =
                                       RemoveAll(@, chosen) \o draw_cards(deck1, 2),
                                   !.deck = DeckAfter(deck1, 2)]
                [] power_name = "mulligan" ->
                     LET unplayable == Unplayable(g, player_id)
                     IN  [g EXCEPT !.hands[player_id] =
                                       RemoveAll(@, unplayable)
                                           \o draw_cards(g.deck, Len(unplayable)),
                                   !.deck = DeckAfter(@, Len(unplayable))]
                [] power_name = "double_points" ->
                     [g EXCEPT !.active_effects[player_id] = "double_points"]
                [] power_name = "block" ->
                     [g EXCEPT !.blocked_players[opponent_id] = TRUE]
                [] OTHER -> g
    IN  [g1 EXCEPT !.power_available[player_id] = FALSE,
                   !.power_used_this_turn[player_id] = TRUE,
                   !.last_action = [NoAction EXCEPT !.type = "power", !.player = player_id,
                                                    !.power = power_name]]

use_power(g, player_id, power_name, chosen, perm) ==
    LET check == use_power_check(g, player_id, power_name)
    IN  IF check = "IndexError" THEN Raise(g)
        ELSE IF check # "" THEN Fail(g, check)
        ELSE Outcome(use_power_apply(g, player_id, power_name, chosen, perm),
                     TRUE, "", FALSE)

\* get_game_state_for_player raises with get_current_player. The display
\* names and the constant POWERS table are left out of the snapshot.
get_game_state_for_player(g, player_id) ==
    LET opponent_id == get_opponent(g, player_id)
        turns_played == Get(g.turns_played, player_id, 0)
        until == POWER_INTERVAL - (turns_played % POWER_INTERVAL)
    IN  [room_code |-> g.room_code,
         game_started |-> g.game_started,
         game_over |-> g.game_over,
         winner |-> g.winner,
         turn_number |-> g.turn_number,
         current_player |-> get_current_player(g),
         is_your_turn |-> is_player_turn(g, player_id),
         your_hand |-> Get(g.hands, player_id, <<>>),
         your_score |-> Get(g.scores, player_id, 0),
         opponent_card_count |->
             IF opponent_id # None THEN Len(Get(g.hands, opponent_id, <<>>)) ELSE 0,
         opponent_score |-> IF opponent_id # None THEN Get(g.scores, opponent_id, 0) ELSE 0,
         played_cards |-> g.played_cards,
         last_played_card |->
             IF g.played_cards # <<>> THEN g.played_cards[Len(g.played_cards)] ELSE None,
         deck_remaining |-> Len(g.deck),
         playable_cards |-> get_playable_cards(Get(g.hands, player_id, <<>>), g.played_cards,
                                               g.last_was_wild, g.open_paren_count),
         last_action |-> g.last_action,
         players_ready |-> Len(g.players),
         last_was_wild |-> g.last_was_wild,
         open_paren_count |-> g.open_paren_count,
         power_available |-> Get(g.power_available, player_id, FALSE),
         active_effect |-> Get(g.active_effects, player_id, None),
         turns_played |-> turns_played,
         turns_until_power |->
             IF until = POWER_INTERVAL /\ turns_played > 0 THEN 0 ELSE until,
         is_blocked |-> Get(g.blocked_players, player_id, FALSE),
         python_code |-> build_python_code(g.played_cards, <<>>),
         is_valid_python |-> validate_python_syntax(build_python_code(g.played_cards, <<>>))]

\* play_card resumed after its checks by a thread that was interrupted there:
\* list.remove raises when the card is not in the player's hand any more, and
\* the dictionary reads raise when the player was removed.
play_card_resume(g, player_id, card_name, position, discarded) ==
    IF ~Contains(Get(g.hands, player_id, <<>>), card_name) THEN Raise(g)
    ELSE play_card_finish(
           play_card_apply(g, player_id, card_name, Min(position, Len(g.played_cards)),
                           discarded),
           card_name)

\* pass_turn resumed after its checks by a thread that was interrupted there.
pass_turn_resume(g, player_id) ==
    IF player_id \notin DOMAIN g.hands THEN Raise(g)
    ELSE pass_turn_finish(pass_turn_apply(g, player_id))

\* ------------------------------------------------------------------------
\* SERVER STATE (app.py) AND ROOM REGISTRY
\* ------------------------------------------------------------------------

\* Socket ids of the human clients, the room codes and
\* power names the clients send, and the addresses GameState objects can have.
Humans == {"p1", "p2"}
RoomCodes == {"ROOM1"}
PowerNames == POWERS \cup {"teleport"}
ObjectIds == 1..3

\* Caps of the model: the AI games started in a run, the bot threads alive
\* at a time, and the handler calls in flight at a time.
MaxAiGames == 1
MaxBotThreads == 1
MaxHandlers == 2

\* The last turn of a session in which the threaded server takes a call.
MaxConcTurn == 4

\* The last turn of a session in which a bot thread sets out.
MaxBotTurn == 6

\* The longest played sequence a session of the legality specification
\* starts with, and the last turn in which it takes a play.
MaxLegalLen == 3
MaxLegalTurn == 1

\* The longest played sequence and the largest deck a session of the deck
\* specification starts with.
MaxDeckSeq == 1
MaxDeckLeft == 3

VARIABLES
    heap,            \* the GameState objects: address -> object
    game_rooms,      \* game_logic.game_rooms: room code -> address
    player_rooms,    \* app.player_rooms: socket id -> room code
    ai_games,        \* app.ai_games: room code -> player id of the bot
    connected,       \* the socket ids whose connection is open
    ai_started,      \* the number of AI games started so far
    bot_threads,     \* the threads started by trigger_bot_turn
    handlers,        \* the session calls a handler thread is in the middle of
    ledger           \* per object: special cards played, cards discarded

vars ==
    <<heap, game_rooms, player_rooms, ai_games, connected, ai_started, bot_threads,
      handlers, ledger>>

\* get_room(room_code) finds a room
HasRoom(room_code) == room_code \in DOMAIN game_rooms

\* the object get_room(room_code) returns
get_room(room_code) == heap[game_rooms[room_code]]

\* The address GameState(room_code) is built at.
NewAddress == CHOOSE a \in ObjectIds \ DOMAIN heap : \A b \in ObjectIds \ DOMAIN heap : a <= b

NoLedger == [special |-> 0, discarded |-> 0]

\* The positions a client sends: None, or an index (an index below 0 or past
\* the end is clamped to one of these).
Positions(g) == {NoPosition} \cup (0..Len(g.played_cards))

\* The objects that are still referenced: the others are freed.
Live(h, rooms, threads, calls) ==
    LET kept == {rooms[c] : c \in DOMAIN rooms}
                    \cup {t.room : t \in threads} \cup {c.room : c \in calls}
    IN  [a \in (DOMAIN h) \cap kept |-> h[a]]

\* The ledger of a play_card call: a special card that was played, and the
\* cards its Discard 2 effect removed from the opponent's hand.
PlayLedger(l, g, player_id, card_name, r, discarded) ==
    IF ~r.success THEN l
    ELSE [special |-> l.special + (IF is_special_card(card_name) THEN 1 ELSE 0),
          discarded |-> l.discarded +
              (IF /\ get_card_effect(card_name) = "discard_2"
                  /\ ~Get(g.blocked_players, player_id, FALSE)
               THEN Len(discarded) ELSE 0)]

\* The ledger of a use_power call: the cards a mulligan removed from the hand.
PowerLedger(l, g, player_id, power_name, r) ==
    IF r.success /\ power_name = "mulligan"
    THEN [l EXCEPT !.discarded = @ + Len(Unplayable(g, player_id))]
    ELSE l

\* trigger_bot_turn(room_code): a thread that has not run yet
NewBotThread(room_code) ==
    [pc |-> "start", room_code |-> room_code, room |-> 0, bot |-> None, card |-> None,
     position |-> NoPosition]

\* "if bot and room.get_current_player() == bot.player_id" of a session that
\* is not over, in the handlers and at the end of bot_turn_task
BotIsNext(g, room_code) ==
    /\ ~g.game_over
    /\ room_code \in DOMAIN ai_games
    /\ ~CurrentRaises(g)
    /\ get_current_player(g) = ai_games[room_code]

\* The state after a step that leaves the registry as it is: object a is now
\* g, its ledger l, and the threads and calls are as given.
Store(a, g, l, threads, calls) ==
    /\ Cardinality(threads) <= MaxBotThreads
    /\ heap' = Live([heap EXCEPT ![a] = g], game_rooms, threads, calls)
    /\ ledger' = [b \in DOMAIN heap' |-> IF b = a THEN l ELSE ledger[b]]
    /\ bot_threads' = threads
    /\ handlers' = calls
    /\ UNCHANGED <<game_rooms, player_rooms, ai_games, connected, ai_started>>

Init ==
    /\ heap = <<>>
    /\ game_rooms = <<>>
    /\ player_rooms = <<>>
    /\ ai_games = <<>>
    /\ connected = Humans
    /\ ai_started = 0
    /\ bot_threads = {}
    /\ handlers = {}
    /\ ledger = <<>>

\* ------------------------------------------------------------------------
\* SOCKET.IO EVENT HANDLERS, each run to its end without interruption. A
\* handler whose session call returns a failure emits an error and changes
\* nothing: it is enabled when the call gets past its checks.
\* ------------------------------------------------------------------------

\* handle_join_room with start_game_for_room: perm and first are the random
\* outcomes start_game reads when the room becomes full.
handle_join_room(player_id, room_code, perm, first) ==
    /\ player_id \in connected
    /\ LET a == IF HasRoom(room_code) THEN game_rooms[room_code] ELSE NewAddress
           room == IF HasRoom(room_code) THEN heap[a] ELSE NewGameState(room_code)
           joined == add_player(room, player_id)
       IN  /\ add_player_ok(room, player_id)
           /\ heap' = Put(heap, a, IF is_ready(joined)
                                   THEN start_game(joined, perm, first) ELSE joined)
           /\ game_rooms' = Put(game_rooms, room_code, a)
           /\ player_rooms' = Put(player_rooms, player_id, room_code)
           /\ ledger' = Put(ledger, a, Get(ledger, a, NoLedger))
           /\ UNCHANGED <<ai_games, connected, ai_started, bot_threads, handlers>>

\* handle_play_card: discarded is the outcome of random.sample.
handle_play_card(player_id, room_code, card_name, position, discarded) ==
    /\ player_id \in connected
    /\ HasRoom(room_code)
    /\ LET a == game_rooms[room_code]
           r == play_card(heap[a], player_id, card_name, position, discarded)
       IN  Passed(heap[a], r) /\ Store(a, r.g, PlayLedger(ledger[a], heap[a], player_id, card_name, r, discarded),
                 IF r.success /\ BotIsNext(r.g, room_code)
                 THEN bot_threads \cup {NewBotThread(room_code)} ELSE bot_threads,
                 handlers)

handle_pass_turn(player_id, room_code) ==
    /\ player_id \in connected
    /\ HasRoom(room_code)
    /\ LET a == game_rooms[room_code]
           r == pass_turn(heap[a], player_id)
       IN  Passed(heap[a], r) /\ Store(a, r.g, ledger[a],
                 IF r.success /\ BotIsNext(r.g, room_code)
                 THEN bot_threads \cup {NewBotThread(room_code)} ELSE bot_threads,
                 handlers)

\* handle_use_power: chosen and perm are the outcomes of random.sample and
\* random.shuffle.
handle_use_power(player_id, room_code, power_name, chosen, perm) ==
    /\ player_id \in connected
    /\ HasRoom(room_code)
    /\ LET a == game_rooms[room_code]
           r == use_power(heap[a], player_id, power_name, chosen, perm)
       IN  Passed(heap[a], r) /\ Store(a, r.g, PowerLedger(ledger[a], heap[a], player_id, power_name, r),
                 bot_threads, handlers)

handle_leave_room(player_id, room_code) ==
    /\ player_id \in connected
    /\ HasRoom(room_code)
    /\ LET a == game_rooms[room_code]
           room == remove_player(heap[a], player_id)
       IN  /\ game_rooms' = IF room.players = <<>> THEN Pop(game_rooms, room_code)
                            ELSE game_rooms
           /\ heap' = Live([heap EXCEPT ![a] = room], game_rooms', bot_threads, handlers)
           /\ ledger' = [b \in DOMAIN heap' |-> ledger[b]]
           /\ player_rooms' = Pop(player_rooms, player_id)
           /\ UNCHANGED <<ai_games, connected, ai_started, bot_threads, handlers>>

\* A handle_disconnect that ends the abandoned game without naming a winner.
DisconnectRoom_NoWinner(room, player_id, is_ai_game) ==
    LET opponent_id == get_opponent(room, player_id)
        left == remove_player(room, player_id)
    IN  IF ~is_ai_game /\ opponent_id # None /\ left.game_started /\ ~left.game_over
        THEN [left EXCEPT !.game_over = TRUE]
        ELSE left

\* The room handle_disconnect leaves behind: an abandoned game in progress
\* between two humans is won by the opponent.
DisconnectRoom(room, player_id, is_ai_game) ==
    LET opponent_id == get_opponent(room, player_id)
        left == remove_player(room, player_id)
    IN  IF ~is_ai_game /\ opponent_id # None /\ left.game_started /\ ~left.game_over
        THEN [left EXCEPT !.game_over = TRUE, !.winner = opponent_id]
        ELSE left

handle_disconnect(player_id) ==
    /\ player_id \in connected
    /\ connected' = connected \ {player_id}
    /\ player_rooms' = Pop(player_rooms, player_id)
    /\ IF player_id \in DOMAIN player_rooms /\ HasRoom(Get(player_rooms, player_id, None))
       THEN LET room_code == player_rooms[player_id]
                a == game_rooms[room_code]
                is_ai_game == room_code \in DOMAIN ai_games
                room == DisconnectRoom(heap[a], player_id, is_ai_game)
            IN  /\ ai_games' = Pop(ai_games, room_code)
                /\ game_rooms' = IF is_ai_game \/ room.players = <<>>
                                 THEN Pop(game_rooms, room_code) ELSE game_rooms
                /\ heap' = Live([heap EXCEPT ![a] = room], game_rooms', bot_threads, handlers)
                /\ ledger' = [b \in DOMAIN heap' |-> ledger[b]]
       ELSE UNCHANGED <<heap, game_rooms, ai_games, ledger>>
    /\ UNCHANGED <<ai_started, bot_threads, handlers>>

\* handle_start_ai_game: create_room replaces a room that has the same code.
handle_start_ai_game(player_id, room_code, perm, first) ==
    /\ player_id \in connected
    /\ player_id \notin DOMAIN player_rooms
    /\ ai_started < MaxAiGames
    /\ LET a == NewAddress
           bot == "BOT_" \o ToString(ai_started + 1)
           room == start_game(add_player(add_player(NewGameState(room_code), player_id),
                                         bot), perm, first)
           threads == IF get_current_player(room) = bot
                      THEN bot_threads \cup {NewBotThread(room_code)} ELSE bot_threads
       IN  /\ Cardinality(threads) <= MaxBotThreads
           /\ game_rooms' = Put(game_rooms, room_code, a)
           /\ heap' = Live(Put(heap, a, room), game_rooms', threads, handlers)
           /\ ledger' = [b \in DOMAIN heap' |-> Get(ledger, b, NoLedger)]
           /\ ai_games' = Put(ai_games, room_code, bot)
           /\ player_rooms' = Put(player_rooms, player_id, room_code)
           /\ bot_threads' = threads
           /\ ai_started' = ai_started + 1
           /\ UNCHANGED <<connected, handlers>>

\* The sequential server between human players: handlers run one at a time.
JoinRoom == \E p \in Humans, c \in RoomCodes, perm \in Shuffles, first \in 0..1 :
                handle_join_room(p, c, perm, first)

PlayCard == \E p \in Humans, c \in RoomCodes, card \in CardSet :
                /\ HasRoom(c)
                /\ \E position \in Positions(get_room(c)) :
                     \E discarded \in DiscardedFor(get_room(c), p, card) :
                        handle_play_card(p, c, card, position, discarded)

PassTurn == \E p \in Humans, c \in RoomCodes : handle_pass_turn(p, c)

UsePower == \E p \in Humans, c \in RoomCodes, power \in PowerNames :
                /\ HasRoom(c)
                /\ \E chosen \in ChosenFor(get_room(c), p, power), perm \in Shuffles :
                        handle_use_power(p, c, power, chosen, perm)

Disconnect == \E p \in Humans : handle_disconnect(p)

NextPlay == JoinRoom \/ PlayCard \/ PassTurn \/ UsePower

SpecPlay == Init /\ [][NextPlay]_vars

Next == JoinRoom \/ PlayCard \/ PassTurn \/ UsePower \/ Disconnect

Spec == Init /\ [][Next]_vars

\* ------------------------------------------------------------------------
\* HANDLER THREADS. The server runs every event handler in a thread of its
\* own (async_mode='threading') and no lock guards a session: a handler can
\* be interrupted between the checks of the session call it makes and the
\* mutation that follows them.
\* ------------------------------------------------------------------------

\* The session call a handler thread is in the middle of, its checks passed.
NewCall(op, player_id, room_code, card_name, position) ==
    [tid |-> CHOOSE t \in 1..MaxHandlers :
                /\ \A h \in handlers : h.tid # t
                /\ \A u \in 1..(t - 1) : \E h \in handlers : h.tid = u,
     op |-> op, player |-> player_id, room_code |-> room_code,
     room |-> game_rooms[room_code], card |-> card_name, position |-> position]

\* handle_play_card up to the last check of play_card.
handle_play_card_check(player_id, room_code, card_name, position) ==
    /\ player_id \in connected
    /\ HasRoom(room_code)
    /\ Cardinality(handlers) < MaxHandlers
    /\ get_room(room_code).turn_number <= MaxConcTurn
    /\ play_card_check(get_room(room_code), player_id, card_name, position) = ""
    /\ handlers' = handlers \cup
           {NewCall("play", player_id, room_code, card_name,
                    NormalizePosition(get_room(room_code), position))}
    /\ UNCHANGED <<heap, game_rooms, player_rooms, ai_games, connected, ai_started,
                   bot_threads, ledger>>

\* handle_play_card from "Play the card" of play_card to its end.
handle_play_card_apply(h, discarded) ==
    /\ h.op = "play"
    /\ LET a == h.room
           r == play_card_resume(heap[a], h.player, h.card, h.position, discarded)
       IN  Store(a, r.g, PlayLedger(ledger[a], heap[a], h.player, h.card, r, discarded),
                 IF r.success /\ BotIsNext(r.g, h.room_code)
                 THEN bot_threads \cup {NewBotThread(h.room_code)} ELSE bot_threads,
                 handlers \ {h})

\* handle_pass_turn up to the last check of pass_turn.
handle_pass_turn_check(player_id, room_code) ==
    /\ player_id \in connected
    /\ HasRoom(room_code)
    /\ Cardinality(handlers) < MaxHandlers
    /\ get_room(room_code).turn_number <= MaxConcTurn
    /\ pass_turn_check(get_room(room_code), player_id) = ""
    /\ handlers' = handlers \cup {NewCall("pass", player_id, room_code, None, NoPosition)}
    /\ UNCHANGED <<heap, game_rooms, player_rooms, ai_games, connected, ai_started,
                   bot_threads, ledger>>

\* handle_pass_turn from "Draw a card" of pass_turn to its end.
handle_pass_turn_apply(h) ==
    /\ h.op = "pass"
    /\ LET a == h.room
           r == pass_turn_resume(heap[a], h.player)
       IN  Store(a, r.g, ledger[a],
                 IF r.success /\ BotIsNext(r.g, h.room_code)
                 THEN bot_threads \cup {NewBotThread(h.room_code)} ELSE bot_threads,
                 handlers \ {h})

PlayCardCheck == \E p \in Humans, c \in RoomCodes, card \in CardSet :
                    /\ HasRoom(c)
                    /\ \E position \in Positions(get_room(c)) :
                          handle_play_card_check(p, c, card, position)

PlayCardApply == \E h \in handlers :
                    \E discarded \in DiscardedFor(heap[h.room], h.player, h.card) :
                        handle_play_card_apply(h, discarded)

PassTurnCheck == \E p \in Humans, c \in RoomCodes : handle_pass_turn_check(p, c)

PassTurnApply == \E h \in handlers : handle_pass_turn_apply(h)

\* The threaded server between human players: the handlers of play_card and
\* pass_turn events run concurrently.
NextConc == JoinRoom \/ PlayCardCheck \/ PlayCardApply \/ PassTurnCheck \/ PassTurnApply

SpecConc == Init /\ [][NextConc]_vars

\* ------------------------------------------------------------------------
\* BOT THREADS. trigger_bot_turn starts bot_turn_task in a thread of its own;
\* the thread sleeps for the bot's think time and then acts on the session,
\* while the handlers of the human player's events go on running.
\* ------------------------------------------------------------------------

\* The state after a step of a bot thread that writes no session.
BotMoves(threads) ==
    /\ bot_threads' = threads
    /\ heap' = Live(heap, game_rooms, threads, handlers)
    /\ ledger' = [b \in DOMAIN heap' |-> ledger[b]]
    /\ UNCHANGED <<game_rooms, player_rooms, ai_games, connected, ai_started, handlers>>

\* "room.get_current_player() == bot.player_id" on the thread's own references
BotKeepsTurn(g, bot) == ~CurrentRaises(g) /\ get_current_player(g) = bot

\* bot_turn_task up to time.sleep: the thread ends when the room is gone or
\* over, when the room has no bot, or when it is not the bot's turn.
bot_turn_start(t) ==
    /\ t.pc = "start"
    /\ HasRoom(t.room_code) => get_room(t.room_code).turn_number <= MaxBotTurn
    /\ BotMoves((bot_threads \ {t}) \cup
           IF /\ HasRoom(t.room_code)
              /\ ~get_room(t.room_code).game_over
              /\ t.room_code \in DOMAIN ai_games
              /\ BotKeepsTurn(get_room(t.room_code), ai_games[t.room_code])
           THEN {[t EXCEPT !.pc = "sleep", !.room = game_rooms[t.room_code],
                           !.bot = ai_games[t.room_code]]}
           ELSE {})

\* bot_turn_task from the end of time.sleep to the second turn test
bot_turn_wake(t) ==
    /\ t.pc = "sleep"
    /\ BotMoves((bot_threads \ {t}) \cup
           IF /\ HasRoom(t.room_code)
              /\ ~get_room(t.room_code).game_over
              /\ BotKeepsTurn(get_room(t.room_code), t.bot)
           THEN {[t EXCEPT !.pc = "woke", !.room = game_rooms[t.room_code]]}
           ELSE {})

\* BotPlayer.should_use_power of the easy bot: what random.random and
\* random.choice can make it return
should_use_power(game_state) ==
    IF ~game_state.power_available THEN {None} ELSE POWERS \cup {None}

\* BotPlayer.choose_card of the easy bot: what random.choice can return
choose_card(playable) ==
    IF playable = <<>> THEN {None} ELSE {playable[k] : k \in 1..Len(playable)}

\* The session after the bot's use_power call, if it makes one.
BotPowerOutcome(g, bot, power_to_use, chosen, perm) ==
    IF power_to_use = None THEN Fail(g, "")
    ELSE use_power(g, bot, power_to_use, chosen, perm)

\* bot_turn_task from the snapshot to the choice of a card: the snapshot
\* raises when the turn pointer is past the end of the player list.
bot_turn_choose(t, power_to_use, chosen, perm, card_to_play) ==
    /\ t.pc = "woke"
    /\ IF CurrentRaises(heap[t.room]) THEN BotMoves(bot_threads \ {t})
       ELSE LET a == t.room
                r == BotPowerOutcome(heap[a], t.bot, power_to_use, chosen, perm)
                game_state == get_game_state_for_player(r.g, t.bot)
            IN  /\ power_to_use \in
                       should_use_power(get_game_state_for_player(heap[a], t.bot))
                /\ card_to_play \in choose_card(game_state.playable_cards)
                /\ Store(a, r.g, PowerLedger(ledger[a], heap[a], t.bot, power_to_use, r),
                         (bot_threads \ {t}) \cup
                             {[t EXCEPT !.pc = "chosen", !.card = card_to_play]},
                         handlers)

\* bot_turn_task in play_card, up to its last check
bot_turn_play_check(t) ==
    /\ t.pc = "chosen"
    /\ t.card # None
    /\ BotMoves((bot_threads \ {t}) \cup
           IF play_card_check(heap[t.room], t.bot, t.card, NoPosition) = ""
           THEN {[t EXCEPT !.pc = "play_checked",
                           !.position = NormalizePosition(heap[t.room], NoPosition)]}
           ELSE {})

\* bot_turn_task from "Play the card" of play_card to its end
bot_turn_play_apply(t, discarded) ==
    /\ t.pc = "play_checked"
    /\ LET a == t.room
           r == play_card_resume(heap[a], t.bot, t.card, t.position, discarded)
       IN  Store(a, r.g, PlayLedger(ledger[a], heap[a], t.bot, t.card, r, discarded),
                 (bot_threads \ {t}) \cup
                     IF r.success /\ ~r.g.game_over /\ BotKeepsTurn(r.g, t.bot)
                     THEN {NewBotThread(t.room_code)} ELSE {},
                 handlers)

\* bot_turn_task in pass_turn, up to its last check
bot_turn_pass_check(t) ==
    /\ t.pc = "chosen"
    /\ t.card = None
    /\ BotMoves((bot_threads \ {t}) \cup
           IF pass_turn_check(heap[t.room], t.bot) = ""
           THEN {[t EXCEPT !.pc = "pass_checked"]} ELSE {})

\* bot_turn_task from "Draw a card" of pass_turn to its end
bot_turn_pass_apply(t) ==
    /\ t.pc = "pass_checked"
    /\ LET a == t.room
           r == pass_turn_resume(heap[a], t.bot)
       IN  Store(a, r.g, ledger[a],
                 (bot_threads \ {t}) \cup
                     IF r.success /\ ~r.g.game_over /\ BotKeepsTurn(r.g, t.bot)
                     THEN {NewBotThread(t.room_code)} ELSE {},
                 handlers)

StartAiGame == \E p \in Humans, c \in RoomCodes, perm \in Shuffles, first \in 0..1 :
                  handle_start_ai_game(p, c, perm, first)

LeaveRoom == \E p \in Humans, c \in RoomCodes : handle_leave_room(p, c)

BotStart == \E t \in bot_threads : bot_turn_start(t)

BotWake == \E t \in bot_threads : bot_turn_wake(t)

BotChoose == \E t \in bot_threads, power \in POWERS \cup {None}, perm \in Shuffles :
                /\ t.pc = "woke"
                /\ \E chosen \in ChosenFor(heap[t.room], t.bot, power), card \in CardSet \cup {None} :
                      bot_turn_choose(t, power, chosen, perm, card)

BotPlayCheck == \E t \in bot_threads : bot_turn_play_check(t)

BotPlayApply == \E t \in bot_threads :
                   /\ t.pc = "play_checked"
                   /\ \E discarded \in DiscardedFor(heap[t.room], t.bot, t.card) :
                         bot_turn_play_apply(t, discarded)

BotPassCheck == \E t \in bot_threads : bot_turn_pass_check(t)

BotPassApply == \E t \in bot_threads : bot_turn_pass_apply(t)

\* The server of a game against the bot: the human player's handlers and the
\* steps of the bot threads.
NextBot ==
    \/ StartAiGame \/ PlayCard \/ PassTurn \/ UsePower \/ Disconnect
    \/ BotStart \/ BotWake \/ BotChoose \/ BotPlayCheck \/ BotPlayApply
    \/ BotPassCheck \/ BotPassApply

SpecBot == Init /\ [][NextBot]_vars

\* ------------------------------------------------------------------------
\* ROOM MANAGEMENT
\* ------------------------------------------------------------------------

\* cleanup_empty_rooms: the registry it leaves.
cleanup_empty_rooms(rooms, objects) ==
    LET empty_rooms == {code \in DOMAIN rooms : objects[rooms[code]].players = <<>>}
    IN  [code \in DOMAIN rooms \ empty_rooms |-> rooms[code]]

\* handle_play_card in the first MaxLegalTurn turns of a session.
FirstPlay == \E p \in Humans, c \in RoomCodes, card \in CardSet :
                /\ HasRoom(c)
                /\ get_room(c).turn_number <= MaxLegalTurn
                /\ \E position \in Positions(get_room(c)) :
                     \E discarded \in DiscardedFor(get_room(c), p, card) :
                        handle_play_card(p, c, card, position, discarded)

\* The clients join a room or start a game against the bot, play the first
\* card, leave and disconnect.
NextRooms == JoinRoom \/ StartAiGame \/ FirstPlay \/ LeaveRoom \/ Disconnect

SpecRooms == Init /\ [][NextRooms]_vars

\* ------------------------------------------------------------------------
\* THE LEGALITY ENGINE UNDER play_card. The sessions of this specification
\* start where a game can have got to: the played sequence is any sequence
\* legal plays can build, the wild flag and the block on the player to move
\* are set or not, and the player to move holds a copy of every card (the
\* deck of the program holds several of each). The turn counter, scores and
\* power counters, which the legality engine does not read, are those of a
\* game just started.
\* ------------------------------------------------------------------------

\* The cards that go into the played sequence.
RegularCards == {c \in CardSet : ~is_special_card(c)}

\* Sequence seq is the result of legal insertions into the empty sequence,
\* each made with the wild flag set or not.
RECURSIVE Buildable(_)
Buildable(seq) ==
    \/ seq = <<>>
    \/ \E i \in 1..Len(seq) :
          LET rest == Slice(seq, 0, i - 1) \o Slice(seq, i, Len(seq))
          IN  /\ \E wild \in BOOLEAN :
                    can_insert_card_at_position(seq[i], rest, i - 1, wild)
              /\ Buildable(rest)

\* The played sequences of at most MaxLegalLen cards that a game can reach.
LegalSequences ==
    {seq \in UNION {[1..n -> RegularCards] : n \in 0..MaxLegalLen} : Buildable(seq)}

\* A session of p1 and p2 in which it is the turn of the player at index
\* first, who holds every card.
LegalSession(room_code, seq, wild, blocked, perm, first) ==
    LET g == start_game(add_player(add_player(NewGameState(room_code), "p1"), "p2"),
                        perm, first)
        player_id == get_current_player(g)
    IN  _recalculate_paren_count(
            [g EXCEPT !.played_cards = seq,
                      !.last_was_wild = wild,
                      !.blocked_players[player_id] = blocked,
                      !.hands[player_id] = CardNames])

InitLegal ==
    /\ \E seq \in LegalSequences, wild \in BOOLEAN, blocked \in BOOLEAN,
          perm \in Shuffles, first \in {0} :
          heap = <<LegalSession("ROOM1", seq, wild, blocked, perm, first)>>
    /\ game_rooms = [c \in {"ROOM1"} |-> 1]
    /\ player_rooms = [p \in Humans |-> "ROOM1"]
    /\ ai_games = <<>>
    /\ connected = Humans
    /\ ai_started = 0
    /\ bot_threads = {}
    /\ handlers = {}
    /\ ledger = <<NoLedger>>

\* handle_play_card in the first MaxLegalTurn turns of such a session.
LegalPlay == \E p \in Humans, c \in RoomCodes, card \in CardSet :
                /\ HasRoom(c)
                /\ get_room(c).turn_number <= MaxLegalTurn
                /\ \E position \in Positions(get_room(c)) :
                     \E discarded \in DiscardedFor(get_room(c), p, card) :
                        handle_play_card(p, c, card, position, discarded)

NextLegal == LegalPlay

SpecLegal == InitLegal /\ [][NextLegal]_vars

\* ------------------------------------------------------------------------
\* THE CARD EFFECTS NEAR THE END OF THE DECK. The sessions of this
\* specification are those of the legality specification after all but a
\* few cards of the deck have been drawn.
\* ------------------------------------------------------------------------

\* The session LegalSession gives, with left cards left in the deck.
DeckSession(room_code, seq, wild, blocked, perm, left) ==
    LET g == LegalSession(room_code, seq, wild, blocked, perm, 0)
    IN  [g EXCEPT !.deck = DeckAfter(@, Len(@) - left)]

InitDeck ==
    /\ \E seq \in {q \in LegalSequences : Len(q) <= MaxDeckSeq},
          wild \in BOOLEAN, blocked \in BOOLEAN, perm \in Shuffles,
          left \in 0..MaxDeckLeft :
          heap = <<DeckSession("ROOM1", seq, wild, blocked, perm, left)>>
    /\ game_rooms = [c \in {"ROOM1"} |-> 1]
    /\ player_rooms = [p \in Humans |-> "ROOM1"]
    /\ ai_games = <<>>
    /\ connected = Humans
    /\ ai_started = 0
    /\ bot_threads = {}
    /\ handlers = {}
    /\ ledger = <<NoLedger>>

SpecDeck == InitDeck /\ [][NextLegal]_vars

\* ------------------------------------------------------------------------
\* The calls a client can make on a session, with their outcomes
\* ------------------------------------------------------------------------

\* Every play_card call of player p on session g with its outcome r.
PlayCalls(g, p) ==
    UNION {UNION {{[player |-> p, card |-> c, r |-> play_card(g, p, c, position, discarded)] :
                     discarded \in DiscardedFor(g, p, c)} :
                  position \in Positions(g)} :
           c \in CardSet}

\* Every pass_turn call of player p on session g with its outcome r.
PassCalls(g, p) == {[player |-> p, r |-> pass_turn(g, p)]}

\* Every use_power call of player p on session g with its outcome r.
PowerCalls(g, p) ==
    UNION {{[player |-> p, power |-> power, r |-> use_power(g, p, power, w[1], w[2])] :
              w \in ChosenFor(g, p, power) \X Shuffles} :
           power \in PowerNames}

\* The outcomes of every play, pass and usePower call of player p on session g.
OutcomesOf(g, p) ==
    {c.r : c \in PlayCalls(g, p)} \cup {c.r : c \in PassCalls(g, p)}
        \cup {c.r : c \in PowerCalls(g, p)}

\* A call of a connected client gets past its checks and changes its session.
CanMove ==
    \E p \in Humans \cap connected, c \in DOMAIN game_rooms :
        \E r \in OutcomesOf(get_room(c), p) :
            Passed(get_room(c), r) /\ r.g # get_room(c)

GameStep == PlayCard \/ PassTurn \/ UsePower

\* The sequential game in which a call that can succeed is eventually made:
\* WF_vars(GameStep), with the enabling condition of GameStep written as the
\* state predicate CanMove.
SpecPlayFair == SpecPlay /\ ([]<>~CanMove \/ []<><<GameStep>>_vars)

\* The sum of the hand sizes of the players of session g.
HandTotal(g) ==
    LET RECURSIVE Sum(_)
        Sum(k) == IF k = 0 THEN 0 ELSE Len(g.hands[g.players[k]]) + Sum(k - 1)
    IN  Sum(Len(g.players))

\* An in-progress session of two players.
InProgress(g) == g.game_started /\ ~g.game_over

\* ------------------------------------------------------------------------
\* C1  Card conservation
\* ------------------------------------------------------------------------

\* C1 as stated: in every session started and driven by play, pass and
\* usePower calls, the two hands, the deck, the played sequence and the
\* special cards successfully played add up to the size of the full deck.
C1_Conservation_AsStated ==
    \A a \in DOMAIN heap :
        heap[a].game_started =>
            HandTotal(heap[a]) + Len(heap[a].deck) + Len(heap[a].played_cards)
                + ledger[a].special = Len(create_deck)

\* C1 amended: the cards add up to the size of the full deck once the cards
\* removed from a hand by a Discard 2 effect or by a mulligan are counted too.
C1_Conservation ==
    \A a \in DOMAIN heap :
        heap[a].game_started =>
            HandTotal(heap[a]) + Len(heap[a].deck) + Len(heap[a].played_cards)
                + ledger[a].special + ledger[a].discarded = Len(create_deck)

\* A session in which a special card was played and cards were discarded,
\* both by a Discard 2 effect and (the deck having been drawn from) later.
C1_Witness ==
    \E a \in DOMAIN heap :
        /\ heap[a].game_started
        /\ ledger[a].special > 0
        /\ ledger[a].discarded > 0
        /\ heap[a].last_action.type = "power"
        /\ heap[a].last_action.power = "mulligan"

\* ------------------------------------------------------------------------
\* C2  Over is terminal
\* ------------------------------------------------------------------------

\* C2: once a session is over, every play, pass and usePower call on it fails
\* and leaves it unchanged, and no step of the server makes it not over or
\* changes its winner.
C2_OverIsTerminal ==
    [][\A a \in DOMAIN heap :
          heap[a].game_over =>
              /\ \A p \in Humans : \A r \in OutcomesOf(heap[a], p) :
                    ~r.success /\ ~r.raised /\ r.g = heap[a]
              /\ a \in DOMAIN heap' =>
                    heap'[a].game_over /\ heap'[a].winner = heap[a].winner]_vars

\* A session of two players that is over while the player the turn pointer
\* designates holds a card that is legal at the end of the sequence.
C2_Witness ==
    \E a \in DOMAIN heap :
        /\ heap[a].game_over
        /\ heap[a].winner # None
        /\ Len(heap[a].players) = 2
        /\ ~CurrentRaises(heap[a])
        /\ get_playable_cards(Get(heap[a].hands, get_current_player(heap[a]), <<>>),
                              heap[a].played_cards, heap[a].last_was_wild,
                              heap[a].open_paren_count) # <<>>

\* ------------------------------------------------------------------------
\* C3  Turn ownership
\* ------------------------------------------------------------------------

\* C3: in an in-progress game every play, pass and usePower call of a player
\* the turn pointer does not designate fails and leaves the session as it is.
C3_TurnOwnership ==
    \A a \in DOMAIN heap :
        InProgress(heap[a]) =>
            \A p \in Humans :
                (CurrentRaises(heap[a]) \/ get_current_player(heap[a]) # p) =>
                    \A r \in OutcomesOf(heap[a], p) : ~r.success /\ r.g = heap[a]

\* An in-progress game in which the player whose turn it is not holds a card
\* that is legal at the end of the sequence and has a power available.
C3_Witness ==
    \E a \in DOMAIN heap : \E p \in PlayerSet(heap[a]) :
        /\ InProgress(heap[a])
        /\ ~CurrentRaises(heap[a])
        /\ get_current_player(heap[a]) # p
        /\ heap[a].power_available[p]
        /\ get_playable_cards(heap[a].hands[p], heap[a].played_cards,
                              heap[a].last_was_wild, heap[a].open_paren_count) # <<>>

\* ------------------------------------------------------------------------
\* C4  Failure atomicity
\* ------------------------------------------------------------------------

\* C4: every play, pass or usePower call that returns failure leaves the
\* session exactly as it was.
C4_FailureAtomicity ==
    \A a \in DOMAIN heap : \A p \in Humans : \A r \in OutcomesOf(heap[a], p) :
        (~r.success /\ ~r.raised) => r.g = heap[a]

\* An in-progress game in which the player to move gets each of the failures
\* that come late in a call: an illegal move with a card of the hand, a pass
\* with legal cards in hand, and a mulligan with nothing to discard.
C4_Witness ==
    \E a \in DOMAIN heap :
        /\ InProgress(heap[a])
        /\ \E p \in Humans :
              /\ \E c \in PlayCalls(heap[a], p) : c.r.message = "Illegal move"
              /\ \E c \in PassCalls(heap[a], p) : c.r.message = "You have valid cards to play"
              /\ \E c \in PowerCalls(heap[a], p) :
                    c.r.message = "All your cards are playable!"

\* ------------------------------------------------------------------------
\* C5  Pass-streak loss
\* ------------------------------------------------------------------------

\* C5: a successful pass that brings the passer's counter of consecutive
\* passes to MAX_CONSECUTIVE_PASSES ends the game with the opponent as the
\* winner, whatever the scores are and whether or not the deck is empty.
C5_PassStreak ==
    \A a \in DOMAIN heap : \A p \in Humans : \A c \in PassCalls(heap[a], p) :
        (c.r.success /\ c.r.g.consecutive_passes[p] >= MAX_CONSECUTIVE_PASSES) =>
            /\ c.r.g.game_over
            /\ c.r.g.winner # None
            /\ c.r.g.winner = get_opponent(heap[a], p)

\* A game ended by the third pass in a row of a player who drew the last
\* card of the deck with it and has the strictly higher score.
C5_Witness ==
    \E a \in DOMAIN heap :
        LET g == heap[a]
            p == g.last_action.player
        IN  /\ g.game_over
            /\ g.last_action.type = "pass"
            /\ g.last_action.drew_card # None
            /\ Len(g.players) = 2
            /\ g.consecutive_passes[p] = MAX_CONSECUTIVE_PASSES
            /\ g.deck = <<>>
            /\ g.scores[p] > g.scores[get_opponent(g, p)]
            /\ g.winner = get_opponent(g, p)

\* ------------------------------------------------------------------------
\* C6  Deck-exhaustion resolution
\* ------------------------------------------------------------------------

\* The winner of a session whose deck is empty, as the rule states it: the
\* strictly higher score, then the strictly smaller hand, then the player at
\* index 0 of the join order.
ExhaustionWinner(g) ==
    LET first == g.players[1]
        second == g.players[2]
    IN  IF g.scores[first] > g.scores[second] THEN first
        ELSE IF g.scores[second] > g.scores[first] THEN second
        ELSE IF Len(g.hands[first]) < Len(g.hands[second]) THEN first
        ELSE IF Len(g.hands[second]) < Len(g.hands[first]) THEN second
        ELSE first

\* C6: after a successful play, or a successful pass that is not a player's
\* third in a row, that leaves the deck empty, the game is over and its
\* winner is the one the deck-exhaustion rule names.
C6_DeckExhaustion ==
    \A a \in DOMAIN heap : \A p \in Humans :
        /\ \A c \in PlayCalls(heap[a], p) :
              (c.r.success /\ c.r.g.deck = <<>>) =>
                  c.r.g.game_over /\ c.r.g.winner = ExhaustionWinner(c.r.g)
        /\ \A c \in PassCalls(heap[a], p) :
              (/\ c.r.success
               /\ c.r.g.deck = <<>>
               /\ c.r.g.consecutive_passes[p] < MAX_CONSECUTIVE_PASSES) =>
                  c.r.g.game_over /\ c.r.g.winner = ExhaustionWinner(c.r.g)

\* A game ended by a play or a pass that left the deck empty, with equal
\* scores and equal hands, won by the player who joined first.
C6_Witness ==
    \E a \in DOMAIN heap :
        LET g == heap[a]
        IN  /\ g.game_over
            /\ g.deck = <<>>
            /\ Len(g.players) = 2
            /\ g.last_action.type \in {"play", "pass"}
            /\ g.consecutive_passes[g.last_action.player] < MAX_CONSECUTIVE_PASSES
            /\ g.scores[g.players[1]] = g.scores[g.players[2]]
            /\ Len(g.hands[g.players[1]]) = Len(g.hands[g.players[2]])
            /\ g.winner = g.players[1]

\* ------------------------------------------------------------------------
\* C7  Deck exhaustion is detected on every action
\* ------------------------------------------------------------------------

\* C7: no session is started, not over and with an empty deck.
C7_ExhaustionDetected ==
    \A a \in DOMAIN heap :
        ~(heap[a].game_started /\ ~heap[a].game_over /\ heap[a].deck = <<>>)

\* ------------------------------------------------------------------------
\* C8  Hand secrecy of the snapshot
\* ------------------------------------------------------------------------

\* The cards the snapshot of player_id names in its last_action.
NamedByLastAction(snapshot) ==
    {snapshot.last_action.card, snapshot.last_action.drew_card} \ {None}

\* C8: the snapshot a player gets names no card that is in the opponent's
\* hand, its last_action included.
C8_HandSecrecy ==
    \A a \in DOMAIN heap : \A p \in PlayerSet(heap[a]) :
        (~CurrentRaises(heap[a]) /\ get_opponent(heap[a], p) # None) =>
            \A c \in NamedByLastAction(get_game_state_for_player(heap[a], p)) :
                ~Contains(heap[a].hands[get_opponent(heap[a], p)], c)

\* ------------------------------------------------------------------------
\* C9  Serialized mutation
\* ------------------------------------------------------------------------

\* The checks of the session call h, made on session g.
CallCheck(h, g) ==
    IF h.op = "play" THEN play_card_check(g, h.player, h.card, h.position)
    ELSE pass_turn_check(g, h.player)

\* C9: no call writes a session between the validation and the mutation of
\* another call, so two calls cannot both pass the checks and both be applied:
\* a call that changes a session does so while its checks still pass on it.
C9_SerializedMutation ==
    [][\A h \in handlers :
          (/\ h \notin handlers'
           /\ h.room \in DOMAIN heap'
           /\ heap'[h.room] # heap[h.room]) => CallCheck(h, heap[h.room]) = ""]_vars

\* ------------------------------------------------------------------------
\* C10  The deferred bot action is re-validated
\* ------------------------------------------------------------------------

\* The room of bot thread t is registered, its session is not over and the
\* turn pointer designates the bot.
BotTurnOfLiveGame(t) ==
    /\ HasRoom(t.room_code)
    /\ game_rooms[t.room_code] = t.room
    /\ ~heap[t.room].game_over
    /\ BotKeepsTurn(heap[t.room], t.bot)

\* The sessions the next step of bot thread t can leave behind.
BotWrites(t) ==
    CASE t.pc = "woke" ->
           IF CurrentRaises(heap[t.room]) THEN {heap[t.room]}
           ELSE UNION {{use_power(heap[t.room], t.bot, power, w[1], w[2]).g :
                          w \in ChosenFor(heap[t.room], t.bot, power) \X Shuffles} :
                       power \in should_use_power(
                                     get_game_state_for_player(heap[t.room], t.bot)) \ {None}}
      [] t.pc = "play_checked" ->
           {play_card_resume(heap[t.room], t.bot, t.card, t.position, discarded).g :
              discarded \in DiscardedFor(heap[t.room], t.bot, t.card)}
      [] t.pc = "pass_checked" -> {pass_turn_resume(heap[t.room], t.bot).g}
      [] OTHER -> {}

\* C10: under every interleaving with the human player's actions and
\* disconnects, a step of a bot thread that changes a session is taken while
\* the room exists, the session is not over and it is the bot's turn.
C10_BotRevalidates ==
    [][\A t \in bot_threads :
          (t \notin bot_threads' /\ \E g \in BotWrites(t) : g # heap[t.room])
              => BotTurnOfLiveGame(t)]_vars

\* ------------------------------------------------------------------------
\* C11  Close-paren guard
\* ------------------------------------------------------------------------

\* C11: while open_paren_count is 0 or less, get_playable_cards does not
\* list ')' for any player and no play_card call with ')' succeeds, at any
\* position and with the wild flag set or not.
C11_CloseParenGuard ==
    \A a \in DOMAIN heap :
        (InProgress(heap[a]) /\ ~CurrentRaises(heap[a]) /\ heap[a].open_paren_count <= 0) =>
            \A p \in PlayerSet(heap[a]) :
                /\ ~Contains(get_playable_cards(heap[a].hands[p], heap[a].played_cards,
                                                heap[a].last_was_wild,
                                                heap[a].open_paren_count), ")")
                /\ \A c \in PlayCalls(heap[a], p) : c.card = ")" => ~c.r.success

\* ------------------------------------------------------------------------
\* C12  The open parenthesis count is never negative
\* ------------------------------------------------------------------------

\* C12: a session whose open_paren_count is not negative never gets a
\* negative open_paren_count by a step of the server, whatever the insertion
\* position and whether the wild flag is set or not.
C12_ParenNonNegative ==
    [][\A a \in DOMAIN heap :
          (a \in DOMAIN heap' /\ heap[a].open_paren_count >= 0) =>
              heap'[a].open_paren_count >= 0]_vars

\* ------------------------------------------------------------------------
\* C13  Grammar is authoritative
\* ------------------------------------------------------------------------

\* C13: with the wild flag not set, a regular card held by the player to
\* move that fails the category check against the card before the insertion
\* point, and whose code passes the Python check, is accepted by play_card.
C13_GrammarAuthoritative ==
    \A a \in DOMAIN heap :
        (InProgress(heap[a]) /\ ~CurrentRaises(heap[a]) /\ ~heap[a].last_was_wild) =>
            \A card \in RegularCards, position \in Positions(heap[a]) :
                LET g == heap[a]
                    player_id == get_current_player(g)
                    at == NormalizePosition(g, position)
                IN  ( /\ Contains(g.hands[player_id], card)
                      /\ ~InsertCheckBefore(card, g.played_cards, at, FALSE)
                      /\ InsertCheckPython(card, g.played_cards, at)
                      /\ can_form_valid_python(Slice(g.played_cards, 0, at), card) )
                    => play_card_check(g, player_id, card, position) = ""

\* ------------------------------------------------------------------------
\* C14  Special cards are context-free
\* ------------------------------------------------------------------------

\* C14: in an in-progress session every play_card call of the player to move
\* with a SPECIAL card of the hand succeeds, whatever the played sequence,
\* the position, the wild flag and the open parenthesis count.
C14_SpecialContextFree ==
    \A a \in DOMAIN heap :
        (InProgress(heap[a]) /\ ~CurrentRaises(heap[a])) =>
            LET g == heap[a]
                player_id == get_current_player(g)
            IN  \A card \in {c \in CardSet : is_special_card(c)} :
                    Contains(g.hands[player_id], card) =>
                        \A position \in Positions(g) :
                            \A discarded \in DiscardedFor(g, player_id, card) :
                                play_card(g, player_id, card, position, discarded).success

\* A special card has just been played on a non-empty sequence, the wild flag
\* is set, no parenthesis is open, and the player to move holds a special
\* card.
C14_Witness ==
    \E a \in DOMAIN heap :
        /\ InProgress(heap[a]) /\ ~CurrentRaises(heap[a])
        /\ heap[a].last_action.type = "play"
        /\ heap[a].last_action.effect # None
        /\ heap[a].played_cards # <<>>
        /\ heap[a].last_was_wild
        /\ heap[a].open_paren_count <= 0
        /\ \E c \in PlayCalls(heap[a], get_current_player(heap[a])) :
              /\ is_special_card(c.card)
              /\ Contains(heap[a].hands[get_current_player(heap[a])], c.card)
              /\ c.r.success

\* ------------------------------------------------------------------------
\* C15  The wild bridge belongs to the player who played Wild
\* ------------------------------------------------------------------------

\* The step takes session a from g to the result of an unblocked, successful
\* play_card(player_id, card_name) that leaves the game in progress.
UnblockedPlay(a, player_id, card_name) ==
    /\ a \in DOMAIN heap /\ a \in DOMAIN heap'
    /\ InProgress(heap[a]) /\ ~CurrentRaises(heap[a])
    /\ get_current_player(heap[a]) = player_id
    /\ ~Get(heap[a].blocked_players, player_id, FALSE)
    /\ heap'[a] # heap[a]
    /\ \E c \in PlayCalls(heap[a], player_id) :
          c.card = card_name /\ c.r.success /\ c.r.g = heap'[a]
    /\ InProgress(heap'[a]) /\ ~CurrentRaises(heap'[a])

\* C15: after an unblocked, successful Wild of player A, every regular card
\* the opponent of A can play passes the category check without the waiver.
C15_WildBridgeOwner ==
    [][\A a \in DOMAIN heap, A \in Humans :
          UnblockedPlay(a, A, "Wild") =>
              LET g == heap'[a]
                  B == get_opponent(g, A)
              IN  \A card \in RegularCards, position \in Positions(g) :
                      play_card_check(g, B, card, position) = ""
                          => InsertCheckBefore(card, g.played_cards,
                                               NormalizePosition(g, position), FALSE)]_vars

\* ------------------------------------------------------------------------
\* C16  Lifetime of the wild bridge
\* ------------------------------------------------------------------------

\* The step stores in session a the result of the successful call c.
StepOf(a, c) ==
    /\ a \in DOMAIN heap /\ a \in DOMAIN heap'
    /\ heap'[a] # heap[a]
    /\ c.r.success
    /\ c.r.g = heap'[a]

\* C16: last_was_wild is true right after a successful unblocked Wild, stays
\* true across a successful pass or use of a power, and is false right after
\* a successful play of a regular card and after a successful unblocked
\* Draw 2, Discard 2 or Skip.
C16_WildBridgeLifetime ==
    [][\A a \in DOMAIN heap, p \in Humans :
          LET blocked == Get(heap[a].blocked_players, p, FALSE)
          IN  /\ \A c \in PlayCalls(heap[a], p) :
                    StepOf(a, c) =>
                        /\ (c.card = "Wild" /\ ~blocked) => heap'[a].last_was_wild
                        /\ ~is_special_card(c.card) => ~heap'[a].last_was_wild
                        /\ (c.card \in {"Draw 2", "Discard 2", "Skip"} /\ ~blocked)
                               => ~heap'[a].last_was_wild
              /\ \A c \in PassCalls(heap[a], p) \cup PowerCalls(heap[a], p) :
                    (StepOf(a, c) /\ heap[a].last_was_wild) => heap'[a].last_was_wild]_vars

\* The wild flag, set by a Wild, has survived a pass or a use of a power.
C16_Witness ==
    \E a \in DOMAIN heap :
        /\ heap[a].last_was_wild
        /\ heap[a].last_action.type \in {"pass", "power"}

\* ------------------------------------------------------------------------
\* C17  A cancelled special card clears the wild bridge
\* ------------------------------------------------------------------------

\* C17: after a successful play_card of a blocked player with a special card
\* of any effect, Wild included, last_was_wild is false.
C17_BlockClearsWild ==
    [][\A a \in DOMAIN heap, p \in Humans :
          \A c \in PlayCalls(heap[a], p) :
              (StepOf(a, c) /\ is_special_card(c.card)
               /\ Get(heap[a].blocked_players, p, FALSE))
                  => ~heap'[a].last_was_wild]_vars

\* ------------------------------------------------------------------------
\* C18  start_game is one-shot
\* ------------------------------------------------------------------------

\* A session as start_game leaves it: two players with STARTING_HAND_SIZE
\* cards each, the rest of the catalogue in the deck, turn number 1.
JustStarted(g) ==
    /\ Len(g.players) = 2
    /\ \A p \in PlayerSet(g) : Len(g.hands[p]) = STARTING_HAND_SIZE
    /\ Len(g.deck) = Len(create_deck) - 2 * STARTING_HAND_SIZE
    /\ g.game_started
    /\ g.turn_number = 1

\* C18: start_game succeeds only on a session of exactly two players that has
\* not started, and then deals STARTING_HAND_SIZE cards to each hand, leaves
\* the rest of the catalogue in the deck, sets game_started and turn number
\* 1; any other start_game call changes nothing; a step of the server that
\* starts a session leaves it so, and no step resets game_started.
C18_StartOneShot ==
    [][\A a \in DOMAIN heap :
          /\ \A g \in {heap[a]} \cup {add_player(heap[a], p) : p \in Humans} :
                \A perm \in Shuffles, first \in 0..1 :
                    /\ start_game_ok(g) <=> (Len(g.players) = 2 /\ ~g.game_started)
                    /\ IF Len(g.players) = 2 /\ ~g.game_started
                       THEN JustStarted(start_game(g, perm, first))
                       ELSE start_game(g, perm, first) = g
          /\ a \in DOMAIN heap' =>
                /\ heap[a].game_started => heap'[a].game_started
                /\ (~heap[a].game_started /\ heap'[a].game_started)
                       => JustStarted(heap'[a])]_vars

\* A session that was started and has moved on to a later turn, on which
\* every start_game call fails and changes nothing.
C18_Witness ==
    \E a \in DOMAIN heap :
        /\ heap[a].game_started
        /\ Len(heap[a].players) = 2
        /\ heap[a].turn_number > 1
        /\ ~start_game_ok(heap[a])
        /\ \A perm \in Shuffles, first \in 0..1 :
              start_game(heap[a], perm, first) = heap[a]

\* ------------------------------------------------------------------------
\* C19  Room capacity
\* ------------------------------------------------------------------------

\* The socket ids that ask to join: the two clients and one more.
Joiners == Humans \cup {"p3"}

\* C19: a session has at most two players and no player twice; add_player
\* fails and changes nothing when two players are present or the id is
\* present, and otherwise appends the player with an empty hand, score 0,
\* pass counter 0 and no power.
C19_RoomCapacity ==
    \A a \in DOMAIN heap :
        LET g == heap[a]
        IN  /\ Len(g.players) <= 2
            /\ \A i, j \in 1..Len(g.players) : i # j => g.players[i] # g.players[j]
            /\ \A p \in Joiners :
                  LET joined == add_player(g, p)
                  IN  IF Len(g.players) >= 2 \/ p \in PlayerSet(g)
                      THEN ~add_player_ok(g, p) /\ joined = g
                      ELSE /\ add_player_ok(g, p)
                           /\ joined.players = Append(g.players, p)
                           /\ joined.hands[p] = <<>>
                           /\ joined.scores[p] = 0
                           /\ joined.consecutive_passes[p] = 0
                           /\ joined.power_available[p] = FALSE

\* A session two clients have joined, which a third one cannot join.
C19_Witness ==
    \E a \in DOMAIN heap :
        /\ Len(heap[a].players) = 2
        /\ "p3" \notin PlayerSet(heap[a])
        /\ ~add_player_ok(heap[a], "p3")
        /\ add_player(heap[a], "p3") = heap[a]

\* ------------------------------------------------------------------------
\* C20  Turn advancement on play
\* ------------------------------------------------------------------------

\* C20: after a successful unblocked Skip the player to move is still the
\* one who played; after any other successful play_card that leaves the game
\* in progress the player to move is the opponent.
C20_TurnAdvancement ==
    [][\A a \in DOMAIN heap, p \in Humans :
          \A c \in PlayCalls(heap[a], p) :
              (StepOf(a, c) /\ InProgress(heap'[a]) /\ ~CurrentRaises(heap'[a])) =>
                  IF c.card = "Skip" /\ ~Get(heap[a].blocked_players, p, FALSE)
                  THEN get_current_player(heap'[a]) = p
                  ELSE get_current_player(heap'[a]) = get_opponent(heap'[a], p)]_vars

\* ------------------------------------------------------------------------
\* C21  No turn advance on a game-ending play
\* ------------------------------------------------------------------------

\* C21: a successful play_card that ends the game leaves the turn pointer,
\* the turn number, the turns-played counters and the power flags as they
\* were.
C21_NoAdvanceOnWin ==
    [][\A a \in DOMAIN heap, p \in Humans :
          \A c \in PlayCalls(heap[a], p) :
              (StepOf(a, c) /\ InProgress(heap[a]) /\ heap'[a].game_over) =>
                  /\ heap'[a].current_turn = heap[a].current_turn
                  /\ heap'[a].turn_number = heap[a].turn_number
                  /\ heap'[a].turns_played = heap[a].turns_played
                  /\ heap'[a].power_available = heap[a].power_available
                  /\ heap'[a].power_used_this_turn = heap[a].power_used_this_turn]_vars

\* ------------------------------------------------------------------------
\* C22  Block is a one-shot cancellation
\* ------------------------------------------------------------------------

PointsOf(cards) ==
    LET RECURSIVE Sum(_)
        Sum(k) == IF k = 0 THEN 0 ELSE get_card_points(cards[k]) + Sum(k - 1)
    IN  Sum(Len(cards))

\* C23: a successful double_points power arms the effect of the player; a
\* regular card the player then plays scores twice its points and clears the
\* effect, and a regular card played without the effect scores its points;
\* passes, special cards, other powers and the opponent's calls change
\* neither the effect nor, but for the card played, the scores.
C23_DoublePointsOneShot ==
    [][\A a \in DOMAIN heap, p \in Humans :
          LET g == heap[a]
              h == heap'[a]
              opp == get_opponent(g, p)
              armed == Get(g.active_effects, p, None) = "double_points"
              others == (opp # None) =>
                            /\ h.active_effects[opp] = g.active_effects[opp]
                            /\ h.scores[opp] = g.scores[opp]
          IN  /\ \A c \in PlayCalls(g, p) :
                    StepOf(a, c) =>
                        /\ others
                        /\ IF is_special_card(c.card)
                           THEN /\ h.active_effects[p] = g.active_effects[p]
                                /\ h.scores[p] = g.scores[p]
                           ELSE /\ h.active_effects[p] = None
                                /\ h.scores[p] = g.scores[p]
                                      + (IF armed THEN 2 ELSE 1) * get_card_points(c.card)
              /\ \A c \in PassCalls(g, p) :
                    StepOf(a, c) =>
                        /\ others
                        /\ h.active_effects[p] = g.active_effects[p]
                        /\ h.scores[p] = g.scores[p]
              /\ \A c \in PowerCalls(g, p) :
                    StepOf(a, c) =>
                        /\ others
                        /\ h.scores[p] = g.scores[p]
                        /\ h.active_effects[p] = IF c.power = "double_points"
                                                 THEN "double_points"
                                                 ELSE g.active_effects[p]]_vars

\* A doubled card has been scored and the effect is spent: the scores exceed
\* the points of the played cards and no effect is armed.
C23_Witness ==
    \E a \in DOMAIN heap :
        /\ Len(heap[a].players) = 2
        /\ heap[a].last_action.type = "play"
        /\ heap[a].scores[heap[a].players[1]] + heap[a].scores[heap[a].players[2]]
               > PointsOf(heap[a].played_cards)
        /\ \A p \in PlayerSet(heap[a]) : heap[a].active_effects[p] = None

\* ------------------------------------------------------------------------
\* C24  Power grant rule
\* ------------------------------------------------------------------------

\* C24: power_available of a player is a flag, and a step sets it only when
\* it advances the turn to that player while the player's turns-played count
\* is a positive multiple of POWER_INTERVAL and the flag was not set.
C24_PowerGrant ==
    [][\A a \in DOMAIN heap :
          /\ \A p \in PlayerSet(heap[a]) : heap[a].power_available[p] \in BOOLEAN
          /\ a \in DOMAIN heap' =>
                \A p \in PlayerSet(heap[a]) \cap PlayerSet(heap'[a]) :
                    (~heap[a].power_available[p] /\ heap'[a].power_available[p]) =>
                        /\ heap'[a].turn_number = heap[a].turn_number + 1
                        /\ heap'[a].current_turn # heap[a].current_turn
                        /\ get_current_player(heap'[a]) = p
                        /\ heap'[a].turns_played[p] > 0
                        /\ heap'[a].turns_played[p] % POWER_INTERVAL = 0]_vars

\* A player has just been granted a power: it is the player's turn, the
\* count of turns played is a positive multiple of POWER_INTERVAL, and the
\* last action is the opponent's.
C24_Witness ==
    \E a \in DOMAIN heap :
        /\ InProgress(heap[a]) /\ ~CurrentRaises(heap[a])
        /\ LET p == get_current_player(heap[a])
           IN  /\ heap[a].power_available[p]
               /\ heap[a].turns_played[p] > 0
               /\ heap[a].turns_played[p] % POWER_INTERVAL = 0
               /\ heap[a].last_action.player = get_opponent(heap[a], p)

\* ------------------------------------------------------------------------
\* C25  One power per grant and per turn
\* ------------------------------------------------------------------------

\* C25: a use_power call succeeds only in a game in progress, for the player
\* to move, with power_available set and a power name of POWERS, and leaves
\* power_available unset and power_used_this_turn set; while
\* power_used_this_turn of a player is set no use_power call of the player
\* succeeds, and the flag is unset only by the turn advancement that ends
\* the player's turn, which a Skip does not make.
C25_OnePowerPerTurn ==
    [][\A a \in DOMAIN heap, p \in Humans :
          LET g == heap[a]
          IN  /\ \A c \in PowerCalls(g, p) :
                    /\ c.r.success =>
                          /\ InProgress(g)
                          /\ get_current_player(g) = p
                          /\ g.power_available[p]
                          /\ c.power \in POWERS
                          /\ ~c.r.g.power_available[p]
                          /\ c.r.g.power_used_this_turn[p]
                    /\ (p \in PlayerSet(g) /\ g.power_used_this_turn[p]) => ~c.r.success
              /\ (a \in DOMAIN heap' /\ p \in PlayerSet(g) /\ p \in PlayerSet(heap'[a])
                  /\ g.power_used_this_turn[p] /\ ~heap'[a].power_used_this_turn[p]) =>
                    /\ get_current_player(g) = p
                    /\ heap'[a].turn_number = g.turn_number + 1
                    /\ heap'[a].turns_played[p] = g.turns_played[p] + 1
              /\ \A c \in PlayCalls(g, p) :
                    (StepOf(a, c) /\ c.card = "Skip") =>
                        heap'[a].power_used_this_turn[p] = g.power_used_this_turn[p]]_vars

\* A player who used a power and then played Skip is still to move, with the
\* power spent, and none of the player's use_power calls succeeds.
C25_Witness ==
    \E a \in DOMAIN heap :
        /\ InProgress(heap[a]) /\ ~CurrentRaises(heap[a])
        /\ LET p == get_current_player(heap[a])
           IN  /\ heap[a].power_used_this_turn[p]
               /\ ~heap[a].power_available[p]
               /\ heap[a].last_action.type = "play"
               /\ heap[a].last_action.card = "Skip"
               /\ heap[a].last_action.player = p
               /\ \A c \in PowerCalls(heap[a], p) : ~c.r.success

\* ------------------------------------------------------------------------
\* C26  Mulligan preserves the hand size
\* ------------------------------------------------------------------------

\* C26: a successful mulligan removes the unplayable cards of the hand and
\* draws as many cards from the deck, so that the hand has the size it had.
C26_MulliganKeepsSize ==
    [][\A a \in DOMAIN heap, p \in Humans :
          \A c \in PowerCalls(heap[a], p) :
              (StepOf(a, c) /\ c.power = "mulligan") =>
                  LET g == heap[a]
                      h == heap'[a]
                      unplayable == Unplayable(g, p)
                  IN  /\ Len(h.hands[p]) = Len(g.hands[p])
                      /\ Len(h.deck) = Len(g.deck) - Len(unplayable)
                      /\ h.hands[p] = RemoveAll(g.hands[p], unplayable)
                                          \o draw_cards(g.deck, Len(unplayable))]_vars

\* ------------------------------------------------------------------------
\* C27  Pass only without legal moves
\* ------------------------------------------------------------------------

\* The player holds a card that play_card accepts at the end of the played
\* sequence.
HasLegalAppend(g, player_id) ==
    \E k \in 1..Len(g.hands[player_id]) :
        can_insert_card_at_position(g.hands[player_id][k], g.played_cards,
                                    Len(g.played_cards), g.last_was_wild)

\* C27: in a game in progress, pass_turn of the player to move fails and
\* changes nothing when a card of the hand is legal at the end of the played
\* sequence, as every special card is, and succeeds when none is.
C27_PassOnlyWithoutMoves ==
    \A a \in DOMAIN heap :
        (InProgress(heap[a]) /\ ~CurrentRaises(heap[a])) =>
            LET g == heap[a]
                p == get_current_player(g)
                r == pass_turn(g, p)
            IN  /\ HasLegalAppend(g, p) <=>
                      \E k \in 1..Len(g.hands[p]) :
                          play_card_check(g, p, g.hands[p][k], NoPosition) = ""
                /\ HasLegalAppend(g, p) => (~r.success /\ r.g = g)
                /\ (\E k \in 1..Len(g.hands[p]) : is_special_card(g.hands[p][k]))
                       => (~r.success /\ r.g = g)
                /\ ~HasLegalAppend(g, p) => r.success

\* After a pass, the player to move holds a special card and cannot pass.
C27_Witness ==
    \E a \in DOMAIN heap :
        /\ InProgress(heap[a]) /\ ~CurrentRaises(heap[a])
        /\ heap[a].last_action.type = "pass"
        /\ LET p == get_current_player(heap[a])
           IN  /\ \E k \in 1..Len(heap[a].hands[p]) : is_special_card(heap[a].hands[p][k])
               /\ ~pass_turn(heap[a], p).success

\* ------------------------------------------------------------------------
\* C28  Effects of a successful pass
\* ------------------------------------------------------------------------

\* C28: a successful pass moves the top card of a non-empty deck to the hand
\* of the passer and no other card, adds 1 to the passer's pass counter,
\* leaves the scores and the played sequence as they were and makes the
\* opponent the player to move; a player's pass counter is not changed by
\* the opponent's calls and returns to 0 only by the player's own play.
C28_PassEffects ==
    [][\A a \in DOMAIN heap, p \in Humans :
          LET g == heap[a]
              h == heap'[a]
              opp == get_opponent(g, p)
          IN  /\ \A c \in PassCalls(g, p) :
                    StepOf(a, c) =>
                        /\ h.hands[p] = g.hands[p]
                               \o draw_cards(g.deck, IF g.deck = <<>> THEN 0 ELSE 1)
                        /\ Len(h.deck) = Len(g.deck) - (IF g.deck = <<>> THEN 0 ELSE 1)
                        /\ h.hands[opp] = g.hands[opp]
                        /\ h.consecutive_passes[p] = g.consecutive_passes[p] + 1
                        /\ h.consecutive_passes[opp] = g.consecutive_passes[opp]
                        /\ h.scores = g.scores
                        /\ h.played_cards = g.played_cards
                        /\ get_current_player(h) = opp
              /\ \A c \in PlayCalls(g, p) \cup PowerCalls(g, p) :
                    (StepOf(a, c) /\ opp # None) =>
                        h.consecutive_passes[opp] = g.consecutive_passes[opp]
              /\ (a \in DOMAIN heap' /\ p \in PlayerSet(g) /\ p \in PlayerSet(h)
                  /\ g.consecutive_passes[p] > 0 /\ h.consecutive_passes[p] = 0) =>
                    /\ h.last_action.type = "play"
                    /\ h.last_action.player = p
                    /\ \E c \in PlayCalls(g, p) : StepOf(a, c)]_vars

\* A player has passed and drawn a card, and the opponent is to move.
C28_Witness ==
    \E a \in DOMAIN heap :
        /\ ~CurrentRaises(heap[a])
        /\ heap[a].last_action.type = "pass"
        /\ heap[a].last_action.drew_card # None
        /\ heap[a].consecutive_passes[heap[a].last_action.player] >= 1
        /\ get_current_player(heap[a]) = get_opponent(heap[a], heap[a].last_action.player)

\* ------------------------------------------------------------------------
\* C29  Draw 2 effect
\* ------------------------------------------------------------------------

\* C29: a successful Draw 2 of a player who is not blocked moves the top
\* min(2, deck size) cards of the deck to the opponent's hand and takes only
\* the Draw 2 card out of the hand of the player.
C29_DrawTwo ==
    [][\A a \in DOMAIN heap, p \in Humans :
          \A c \in PlayCalls(heap[a], p) :
              (StepOf(a, c) /\ c.card = "Draw 2"
               /\ ~Get(heap[a].blocked_players, p, FALSE)) =>
                  LET g == heap[a]
                      h == heap'[a]
                      opp == get_opponent(g, p)
                      n == Min(2, Len(g.deck))
                  IN  /\ h.hands[opp] = g.hands[opp] \o draw_cards(g.deck, n)
                      /\ Len(h.hands[opp]) = Len(g.hands[opp]) + n
                      /\ Len(h.deck) = Len(g.deck) - n
                      /\ \A card \in CardSet :
                            Count(h.deck, card) + Count(h.hands[opp], card)
                                = Count(g.deck, card) + Count(g.hands[opp], card)
                      /\ h.hands[p] = Remove(g.hands[p], "Draw 2")]_vars

\* A Draw 2 has been played on a deck of one card: the deck is empty and the
\* opponent holds one card more than was dealt.
C29_Witness ==
    \E a \in DOMAIN heap :
        /\ ~CurrentRaises(heap[a])
        /\ heap[a].last_action.type = "play"
        /\ heap[a].last_action.card = "Draw 2"
        /\ heap[a].deck = <<>>
        /\ LET p == heap[a].last_action.player
           IN  Len(heap[a].hands[get_opponent(heap[a], p)]) = STARTING_HAND_SIZE + 1

\* ------------------------------------------------------------------------
\* C30  Empty sessions are destroyed
\* ------------------------------------------------------------------------

\* The players of a session that are clients, not the bot.
HumansOf(g) == PlayerSet(g) \cap Humans

\* C30: every room of the registry has a human player, and
\* cleanup_empty_rooms removes the rooms without players and no other.
C30_EmptyRoomsDestroyed ==
    /\ \A code \in DOMAIN game_rooms : HumansOf(get_room(code)) # {}
    /\ \A code \in DOMAIN game_rooms :
          code \in DOMAIN cleanup_empty_rooms(game_rooms, heap)
              <=> get_room(code).players # <<>>

\* ------------------------------------------------------------------------
\* C31  The parenthesis counter matches the sequence
\* ------------------------------------------------------------------------

\* C31: in every session open_paren_count is the number of '(' of the played
\* sequence minus its number of ')', and a successful play of a special
\* card, pass or use of a power leaves the counter as it was.
C31_ParenCounter ==
    /\ [](\A a \in DOMAIN heap :
             heap[a].open_paren_count = Count(heap[a].played_cards, "(")
                                            - Count(heap[a].played_cards, ")"))
    /\ [][\A a \in DOMAIN heap, p \in Humans :
             /\ \A c \in PlayCalls(heap[a], p) :
                   (StepOf(a, c) /\ is_special_card(c.card)) =>
                       heap'[a].open_paren_count = heap[a].open_paren_count
             /\ \A c \in PassCalls(heap[a], p) \cup PowerCalls(heap[a], p) :
                   StepOf(a, c) =>
                       heap'[a].open_paren_count = heap[a].open_paren_count]_vars

\* A ')' has been played and has closed the only '(' of the sequence.
C31_Witness ==
    \E a \in DOMAIN heap :
        /\ Count(heap[a].played_cards, ")") = 1
        /\ Count(heap[a].played_cards, "(") = 1
        /\ heap[a].open_paren_count = 0
        /\ heap[a].last_action.type = "play"
        /\ heap[a].last_action.card = ")"

\* ------------------------------------------------------------------------
\* C32  The played sequence only grows by insertion
\* ------------------------------------------------------------------------

\* C32: the played sequence of a session never holds a special card and is
\* left as it was by a failed call; across a step the previous sequence is a
\* subsequence of the new one; a successful play of a regular card inserts
\* the card at the clamped requested position and a successful play of a
\* special card, pass or use of a power leaves the sequence as it was.
C32_SequenceGrowsByInsertion ==
    /\ [](\A a \in DOMAIN heap :
             /\ \A i \in 1..Len(heap[a].played_cards) :
                   ~is_special_card(heap[a].played_cards[i])
             /\ \A p \in Humans : \A r \in OutcomesOf(heap[a], p) :
                   ~r.success => r.g.played_cards = heap[a].played_cards)
    /\ [][LET IsSubsequence(s, t) ==
                 LET RECURSIVE Sub(_, _)
                     Sub(i, j) == IF i > Len(s) THEN TRUE
                                  ELSE IF j > Len(t) THEN FALSE
                                  ELSE IF s[i] = t[j] THEN Sub(i + 1, j + 1)
                                  ELSE Sub(i, j + 1)
                 IN  Sub(1, 1)
             InsertedAt(s, t, k, card) ==
                 /\ Len(t) = Len(s) + 1
                 /\ t[k + 1] = card
                 /\ \A i \in 1..Len(s) : s[i] = t[IF i <= k THEN i ELSE i + 1]
         IN  \A a \in DOMAIN heap \cap DOMAIN heap' :
                LET g == heap[a]
                    h == heap'[a]
                IN  /\ IsSubsequence(g.played_cards, h.played_cards)
                    /\ \A p \in Humans :
                          /\ \A card \in CardSet, position \in Positions(g) :
                                \A discarded \in DiscardedFor(g, p, card) :
                                   LET r == play_card(g, p, card, position, discarded)
                                       k == IF position = NoPosition
                                            THEN Len(g.played_cards)
                                            ELSE IF position < 0 THEN 0
                                            ELSE IF position > Len(g.played_cards)
                                                 THEN Len(g.played_cards)
                                            ELSE position
                                   IN  (h # g /\ r.success /\ r.g = h) =>
                                          IF is_special_card(card)
                                          THEN h.played_cards = g.played_cards
                                          ELSE InsertedAt(g.played_cards, h.played_cards,
                                                          k, card)
                          /\ \A c \in PassCalls(g, p) \cup PowerCalls(g, p) :
                                StepOf(a, c) => h.played_cards = g.played_cards]_vars

\* A regular card has been inserted before the end of the played sequence.
C32_Witness ==
    \E a \in DOMAIN heap :
        /\ heap[a].last_action.type = "play"
        /\ ~is_special_card(heap[a].last_action.card)
        /\ heap[a].last_action.position < Len(heap[a].played_cards) - 1
        /\ heap[a].played_cards[heap[a].last_action.position + 1] = heap[a].last_action.card

\* ------------------------------------------------------------------------
\* C33  A blocked Skip does not skip
\* ------------------------------------------------------------------------

\* C33: after a successful Skip of a blocked player that leaves the game in
\* progress, the player to move is the opponent.
C33_BlockedSkipDoesNotSkip ==
    [][\A a \in DOMAIN heap, p \in Humans :
          \A c \in PlayCalls(heap[a], p) :
              (/\ StepOf(a, c)
               /\ c.card = "Skip"
               /\ Get(heap[a].blocked_players, p, FALSE)
               /\ InProgress(heap'[a])
               /\ ~CurrentRaises(heap'[a])) =>
                  get_current_player(heap'[a]) = get_opponent(heap'[a], p)]_vars

\* ------------------------------------------------------------------------
\* C34  The winner is well defined
\* ------------------------------------------------------------------------

\* C34: a session is over exactly when it has a winner; the step that ends
\* the game of a session names as winner one of the two players the session
\* had before the step, and the winner of a session that is over does not
\* change.
C34_WinnerWellDefined ==
    /\ [](\A a \in DOMAIN heap : heap[a].game_over <=> heap[a].winner # None)
    /\ [][\A a \in DOMAIN heap \cap DOMAIN heap' :
             /\ (~heap[a].game_over /\ heap'[a].game_over) =>
                    /\ Len(heap[a].players) = 2
                    /\ heap'[a].winner \in PlayerSet(heap[a])
             /\ heap[a].game_over => heap'[a].winner = heap[a].winner]_vars

\* A game has ended by the disconnection of a player: the player who stayed
\* is the winner.
C34_Witness ==
    \E a \in DOMAIN heap :
        /\ heap[a].game_over
        /\ Len(heap[a].players) = 1
        /\ heap[a].winner = heap[a].players[1]

\* ------------------------------------------------------------------------
\* C35  Operations never raise after a leave
\* ------------------------------------------------------------------------

\* C35: in every session that has a player, current_turn is the index of a
\* player, and no play_card, pass_turn or use_power call of a client raises.
C35_NoRaiseAfterLeave ==
    \A a \in DOMAIN heap :
        heap[a].players # <<>> =>
            /\ heap[a].current_turn < Len(heap[a].players)
            /\ ~CurrentRaises(heap[a])
            /\ \A p \in Humans : \A r \in OutcomesOf(heap[a], p) : ~r.raised

\* ------------------------------------------------------------------------
\* C36  Creating a room never destroys another
\* ------------------------------------------------------------------------

\* C36: a handle_start_ai_game step, which calls create_room with the code
\* of the client, leaves every room the registry held registered under its
\* code as the same session with the players it had.
C36_CreateKeepsRooms ==
    [][ai_started' # ai_started =>
          \A code \in DOMAIN game_rooms :
              /\ code \in DOMAIN game_rooms'
              /\ game_rooms'[code] = game_rooms[code]
              /\ heap'[game_rooms'[code]].players = heap[game_rooms[code]].players]_vars

\* ------------------------------------------------------------------------
\* C37  No stuck turn
\* ------------------------------------------------------------------------

\* C37: in a game in progress between two players, the player to move can
\* play a card of the hand at the end of the sequence or can pass; every card
\* of the playable list reported to that player is played by play_card at
\* the end of the sequence, and pass_turn succeeds when the list is empty.
C37_NoStuckTurn ==
    \A a \in DOMAIN heap :
        (InProgress(heap[a]) /\ Len(heap[a].players) = 2) =>
            LET g == heap[a]
                p == get_current_player(g)
                playable == get_game_state_for_player(g, p).playable_cards
            IN  /\ \/ \E k \in 1..Len(g.hands[p]) :
                         \E discarded \in DiscardedFor(g, p, g.hands[p][k]) :
                            play_card(g, p, g.hands[p][k], NoPosition, discarded).success
                   \/ pass_turn(g, p).success
                /\ \A k \in 1..Len(playable) :
                      \A discarded \in DiscardedFor(g, p, playable[k]) :
                         play_card(g, p, playable[k], NoPosition, discarded).success
                /\ playable = <<>> => pass_turn(g, p).success

\* After a play, the player to move holds cards, none of which is playable,
\* and can pass.
C37_Witness ==
    \E a \in DOMAIN heap :
        /\ InProgress(heap[a]) /\ Len(heap[a].players) = 2
        /\ heap[a].last_action.type = "play"
        /\ LET p == get_current_player(heap[a])
           IN  /\ heap[a].hands[p] # <<>>
               /\ get_game_state_for_player(heap[a], p).playable_cards = <<>>
               /\ pass_turn(heap[a], p).success

\* ------------------------------------------------------------------------
\* C38  Every game ends
\* ------------------------------------------------------------------------

\* C38: when the calls that can succeed keep being made, every session in
\* progress between two players is eventually over: no sequence of
\* successful play, pass and use of a power goes on for ever.
C38_EveryGameEnds ==
    \A c \in RoomCodes :
        (HasRoom(c) /\ InProgress(get_room(c)) /\ Len(get_room(c).players) = 2)
            ~> (HasRoom(c) /\ get_room(c).game_over)

\* A game of two players has ended on a pass after both players have played.
C38_Witness ==
    \E a \in DOMAIN heap :
        /\ heap[a].game_over
        /\ Len(heap[a].players) = 2
        /\ heap[a].last_action.type = "pass"
        /\ \A k \in 1..2 : heap[a].turns_played[heap[a].players[k]] >= 1

\* ------------------------------------------------------------------------
\* C39  The two legality entry points agree at the end of the sequence
\* ------------------------------------------------------------------------

\* C39: for every card and every session, can_play_card on the played
\* sequence, wild flag and open_paren_count of the session gives the verdict
\* of can_insert_card_at_position at position len(played_cards).
C39_LegalityAgrees ==
    \A a \in DOMAIN heap : \A card \in CardSet :
        can_play_card(card, heap[a].played_cards, heap[a].last_was_wild,
                      heap[a].open_paren_count)
            <=> can_insert_card_at_position(card, heap[a].played_cards,
                                            Len(heap[a].played_cards),
                                            heap[a].last_was_wild)

=============================================================================
